---- MODULE Spec2Model ----
(***************************************************************************)
(* CalDAV Schedule Sync plugin (src/unnamed/part_000, lines 832-1536):     *)
(* the reconciliation engine that pushes the tasks of the host's task      *)
(* inventory to a remote calendar and keeps the task -> event mapping.     *)
(*                                                                         *)
(* Granularity: an async function is cut at its awaits.  One step of the   *)
(* model is the code that runs from the resolution of one awaited call     *)
(* (getTasks, fetch, persistDataSynced, setTimeout) up to the next await.  *)
(* A fetch is one step: the server handles the request and the response    *)
(* (or the transport failure) is delivered.  A transport failure leaves    *)
(* the remote untouched.                                                   *)
(***************************************************************************)
EXTENDS Integers, Sequences, FiniteSets, TLC

\* ------------------------------------------------------------------ bounds
\* The number of task ids, and the number of environment events of one
\* behaviour: task edits, remote calls that are rejected or do not get
\* through, and persist calls that fail.
NumTasks == 3
MaxEvents == 1

TaskIds == 1..NumTasks

\* The tasks of the inventory in the specification of all handlers, Spec;
\* the specification of the sweep, SpecSweep, has all of TaskIds.
HandlerIds == {t \in TaskIds : t <= 2}
Slots == {1}

\* The activations that may run at once where handlers overlap (SpecOverlap);
\* in the other specifications the second one stays idle.
OverlapSlots == {1, 2}

\* ------------------------------------------------------------- task values
\* A task field that is unset is falsy in the code's tests (!task.plannedAt):
\* an unset timestamp is modelled by 0 and an unset date by "".
PlannedValues == {0, 10}
DueValues == {0, 20}
DayValues == {"", "2026-01-03"}

AllTasks ==
  [exists: {TRUE}, plannedAt: PlannedValues, dueWithTime: DueValues,
   dueDay: DayValues, isDone: BOOLEAN]

NoTask ==
  [exists |-> FALSE, plannedAt |-> 0, dueWithTime |-> 0, dueDay |-> "", isDone |-> FALSE]

\* The snapshots the task inventory of the reconciler model moves through,
\* one or two of each class of the sync policy.
TaskShapes ==
  {[exists |-> TRUE, plannedAt |-> 10, dueWithTime |-> 0, dueDay |-> "", isDone |-> FALSE],
   [exists |-> TRUE, plannedAt |-> 0, dueWithTime |-> 0, dueDay |-> "", isDone |-> FALSE],
   [exists |-> TRUE, plannedAt |-> 0, dueWithTime |-> 0, dueDay |-> "2026-01-03", isDone |-> TRUE]}

\* ------------------------------------------------------------------ config
DefaultConfig ==
  [username |-> "", password |-> "", calendarUrl |-> "",
   enabled |-> FALSE, deleteCompletedTasks |-> TRUE]

AllConfigs ==
  [username: {"", "user"}, password: {"", "secret"},
   calendarUrl: {"", "https://cal/"},
   enabled: BOOLEAN, deleteCompletedTasks: BOOLEAN]

\* Configs delivered by the settings UI: complete credentials, or enabled
\* with one of them missing, or the defaults.
Configs ==
  {c \in AllConfigs : c.enabled /\ c.username # "" /\ c.password # "" /\ c.calendarUrl # ""}
  \cup {[DefaultConfig EXCEPT !.enabled = TRUE, !.username = "user", !.calendarUrl = "https://cal/"],
        DefaultConfig}

\* ----------------------------------------------------------------- mapping
NoUid == <<>>
EmptyMapping == [t \in TaskIds |-> NoUid]

VARIABLES
  tasks,             \* the host's task inventory: TaskIds -> task or NoTask
  caldavConfig,      \* let caldavConfig
  taskEventMapping,  \* let taskEventMapping: TaskIds -> event uid or NoUid
  remote,            \* the uids of the resources the calendar server holds
  persisted,         \* the plugin's persistence slot (the parsed blob)
  act,               \* the running activations of the async handlers
  net,               \* the requests issued in the last step
  snack,             \* the notifications shown in the last step
  posted,            \* the messages posted to the settings view in the last step
  lastOp,            \* the handler that finished last, while nothing else happened
  used,              \* how much of each bound the behaviour has used
  probe              \* inputs and results of a pure function under test

vars ==
  <<tasks, caldavConfig, taskEventMapping, remote, persisted, act, net, snack,
    posted, lastOp, used, probe>>

EventsLeft == used.events < MaxEvents

\* ------------------------------------------------------------ sync policy
shouldSyncTaskIgnoringDone(task) ==
  ~(task.plannedAt = 0 /\ task.dueWithTime = 0 /\ task.dueDay = "")

shouldSyncTask(task) ==
  IF task.plannedAt = 0 /\ task.dueWithTime = 0 /\ task.dueDay = ""
  THEN FALSE
  ELSE IF task.isDone THEN FALSE ELSE TRUE

shouldDeleteTaskAnyDone(task) ==
  IF task.plannedAt = 0 /\ task.dueWithTime = 0 /\ task.dueDay = ""
  THEN TRUE
  ELSE IF task.isDone THEN TRUE ELSE FALSE

shouldDeleteTask(task) ==
  IF task.plannedAt = 0 /\ task.dueWithTime = 0 /\ task.dueDay = ""
  THEN TRUE
  ELSE IF task.isDone /\ caldavConfig.deleteCompletedTasks THEN TRUE ELSE FALSE

\* The branch onTaskUpdate takes for a task it found.
Decision(task) ==
  IF shouldSyncTask(task) THEN "Sync"
  ELSE IF shouldDeleteTask(task) THEN "Delete"
  ELSE "Ignore"

\* ------------------------------------------------------- remote and storage
\* `sp-task-${task.id}`
EventUid(taskId) == <<"sp-task-", taskId>>

\* A line of an iCalendar document: what stands before the colon, and after.
Line(key, value) == [key |-> key, value |-> value]

UidLineFixed(taskId) == Line("UID", <<"sp-task-", 1>>)

\* `UID:sp-task-${task.id}`, the UID line of the document createEventFromTask
\* builds for the task.
UidLine(taskId) == Line("UID", EventUid(taskId))

\* response.ok
OkStatus(status) == status \in 200..299

RejectStatuses == {500}

\* What the calendar server may answer to a request: it handles it (a PUT
\* creates or replaces the resource, a DELETE of an absent resource is 404),
\* or it rejects it, or the transport fails and fetch throws.
Replies(method, uid) ==
  {[threw |-> FALSE,
    status |-> IF uid \in remote THEN 204 ELSE IF method = "PUT" THEN 201 ELSE 404]}
  \cup (IF EventsLeft
        THEN {[threw |-> FALSE, status |-> st] : st \in RejectStatuses}
             \cup {[threw |-> TRUE, status |-> 0]}
        ELSE {})

IsFault(reply) == reply.threw \/ reply.status \in RejectStatuses

RemoteAfter(method, uid, reply) ==
  IF reply.threw \/ ~OkStatus(reply.status) THEN remote
  ELSE IF method = "PUT" THEN remote \cup {uid} ELSE remote \ {uid}

Request(method, uid, reply) ==
  [method |-> method, uid |-> uid, threw |-> reply.threw, status |-> reply.status]

\* JSON.stringify({config, mapping}): the mapping object's members are the
\* task ids that have an entry.
NoBlob == <<>>
StringifyConfigOnly(cfg, m) == <<[config |-> cfg, mapping |-> {}]>>

Stringify(cfg, m) ==
  <<[config |-> cfg,
     mapping |-> {<<t, m[t]>> : t \in {x \in TaskIds : m[x] # NoUid}}]>>

\* PluginAPI.persistDataSynced may fail.
StoreReplies == {TRUE} \cup (IF EventsLeft THEN {FALSE} ELSE {})

Snack(type, msg, n, e) == [type |-> type, msg |-> msg, n |-> n, e |-> e]

\* -------------------------------------------------------------- activations
Idle ==
  [pc |-> "idle", op |-> "none", taskId |-> 0, uid |-> NoUid, blob |-> NoBlob,
   snap |-> [t \in TaskIds |-> NoTask], keys |-> <<>>, todo |-> <<>>, total |-> 0,
   syncedCount |-> 0, errorCount |-> 0, cleanedUp |-> 0,
   failed |-> FALSE, okPuts |-> 0, badPuts |-> 0, orphans0 |-> {},
   prev |-> "none", dirty |-> FALSE]

NoOp ==
  [op |-> "none", taskId |-> 0, failed |-> FALSE, threw |-> FALSE, quiet |-> FALSE,
   prev |-> "none", orphans0 |-> {}, total |-> 0, okPuts |-> 0, badPuts |-> 0]

\* The record of the handler whose activation a has returned (threw: it
\* rejected its promise).
Finished(a, threw) ==
  [op |-> a.op, taskId |-> IF a.op = "sweep" THEN 0 ELSE a.taskId,
   failed |-> a.failed, threw |-> threw, quiet |-> ~a.dirty,
   prev |-> a.prev, orphans0 |-> a.orphans0, total |-> a.total,
   okPuts |-> a.okPuts, badPuts |-> a.badPuts]

\* What the handler started now repeats: the same handler for the same task
\* finished last, without a failure, and nothing happened since.
Repeats(op, taskId) ==
  IF lastOp.quiet /\ ~lastOp.failed /\ lastOp.op = op /\ lastOp.taskId = taskId
  THEN "same"
  ELSE IF lastOp.quiet /\ lastOp.failed /\ lastOp.op = op /\ lastOp.taskId = taskId
  THEN "retry"
  ELSE "none"

Begin(op, taskId) ==
  [Idle EXCEPT !.op = op, !.taskId = taskId, !.snap = tasks,
               !.prev = Repeats(op, taskId)]

AllIdle == \A s \in Slots : act[s].pc = "idle"

TypeOK ==
  /\ tasks \in [TaskIds -> AllTasks \cup {NoTask}]
  /\ caldavConfig \in AllConfigs
  /\ \A t \in TaskIds : taskEventMapping[t] \in {NoUid, EventUid(t)}
  /\ \A s \in Slots : act[s].pc \in
       {"idle", "put", "putSave", "del", "delSave", "orphanDel", "orphanSave",
        "delay", "cfgSave", "dbgDel", "dbgSave"}
  /\ Len(net) <= 1

\* ------------------------------------------------------------------- Init
\* After init() (loadData): the persistence slot is empty and the config is
\* the default one, or it holds the blob of an earlier session, whose mapping
\* has an entry for each task that session pushed to the calendar.
MappingOf(synced) == [t \in TaskIds |-> IF t \in synced THEN EventUid(t) ELSE NoUid]

InitReconciler ==
  /\ caldavConfig \in Configs
  /\ \E synced \in SUBSET TaskIds :
       /\ taskEventMapping = MappingOf(synced)
       /\ remote = {EventUid(t) : t \in synced}
  /\ persisted \in {NoBlob, Stringify(caldavConfig, taskEventMapping)}
  /\ (persisted = NoBlob => caldavConfig = DefaultConfig /\ remote = {})
  /\ act = [s \in OverlapSlots |-> Idle]
  /\ net = <<>>
  /\ snack = <<>>
  /\ posted = <<>>
  /\ lastOp = NoOp
  /\ used = [events |-> 0, storeFailed |-> FALSE]
  /\ probe = [applied |-> FALSE, task |-> NoTask, sync |-> FALSE, del |-> FALSE,
              branch |-> "none"]

InitFor(ids) ==
  /\ tasks \in [TaskIds -> TaskShapes \cup {NoTask}]
  /\ \A t \in TaskIds \ ids : tasks[t] = NoTask
  /\ InitReconciler
  /\ \A t \in TaskIds \ ids : taskEventMapping[t] = NoUid

Init == InitFor(HandlerIds)

\* ------------------------------------------------------------ environment
\* The user edits or deletes a task in the host application.
EditTask(t, shape) ==
  /\ EventsLeft
  /\ tasks[t].exists
  /\ shape # tasks[t]
  /\ tasks' = [tasks EXCEPT ![t] = shape]
  /\ used' = [used EXCEPT !.events = @ + 1]
  /\ act' = [s \in OverlapSlots |->
               IF act[s].pc = "idle" THEN act[s] ELSE [act[s] EXCEPT !.dirty = TRUE]]
  /\ lastOp' = NoOp
  /\ net' = <<>>
  /\ snack' = <<>>
  /\ posted' = <<>>
  /\ UNCHANGED <<caldavConfig, taskEventMapping, remote, persisted, probe>>

\* ------------------------------------------------- outcomes of remote calls
NoReply == [threw |-> FALSE, status |-> 0]

\* putCalDAVEvent returns when the response is ok, and throws otherwise.
PutReturnsAnyStatus(reply) == ~reply.threw

PutReturnsAlways(reply) == TRUE

PutReturns(reply) == ~reply.threw /\ OkStatus(reply.status)

\* deleteCalDAVEvent sends its request unless (!caldavConfig.enabled).
DeleteSendsAlways == TRUE

DeleteSends == caldavConfig.enabled

\* deleteCalDAVEvent returns unless fetch throws: a response that is neither
\* ok nor 404 is only logged (console.warn).
DeleteReturnsAnyway(reply) == TRUE

DeleteReturns(reply) == ~reply.threw

\* syncTaskToCalDAV catches what its body throws, shows a snack and returns.
SyncTaskRethrows(err) == err

SyncTaskThrows(err) == FALSE

\* The uid a delete targets: taskEventMapping[taskId] || `sp-task-${taskId}`
DeleteTargetMappedOnly(taskId) == taskEventMapping[taskId]

DeleteTarget(taskId) ==
  IF taskEventMapping[taskId] # NoUid THEN taskEventMapping[taskId]
  ELSE EventUid(taskId)

\* taskEventMapping[task.id] = eventUid
MappingPutToggling(m, taskId, uid) ==
  [m EXCEPT ![taskId] = IF @ = NoUid THEN uid ELSE NoUid]

MappingPut(m, taskId, uid) == [m EXCEPT ![taskId] = uid]

\* delete taskEventMapping[taskId]
MappingKept(m, taskId) == m

MappingRemove(m, taskId) == [m EXCEPT ![taskId] = NoUid]

\* ------------------------------------------------ the sync pass of a sweep
\* Each operator gives the activation after the code has run up to its next
\* await, with the snacks shown on the way; pc = "idle" when it has returned.
SweepSummary(a) ==
  [a |-> [a EXCEPT !.pc = "idle"],
   snacks |-> <<Snack(IF a.errorCount = 0 THEN "SUCCESS" ELSE "ERROR", "summary",
                      a.syncedCount, a.errorCount)>>]

\* syncTaskToCalDAV returned for the head of todo: syncedCount++ and the delay.
SweepItemReturnedOrAborts(a) ==
  LET b == [a EXCEPT !.syncedCount = @ + 1, !.todo = Tail(@)]
  IN IF b.syncedCount < b.total /\ ~a.failed
     THEN [a |-> [b EXCEPT !.pc = "delay"], snacks |-> <<>>]
     ELSE SweepSummary(b)

SweepItemReturned(a) ==
  LET b == [a EXCEPT !.syncedCount = @ + 1, !.todo = Tail(@)]
  IN IF b.syncedCount < b.total
     THEN [a |-> [b EXCEPT !.pc = "delay"], snacks |-> <<>>]
     ELSE SweepSummary(b)

\* The loop body for the head of todo, up to the fetch of its PUT.
SweepItemStart(a) ==
  IF ~caldavConfig.enabled
  THEN SweepItemReturned(a)
  ELSE [a |-> [a EXCEPT !.pc = "put", !.taskId = Head(a.todo),
                        !.uid = EventUid(Head(a.todo))],
        snacks |-> <<>>]

SweepNext(a) == IF a.todo = <<>> THEN SweepSummary(a) ELSE SweepItemStart(a)

\* syncTaskToCalDAV threw for the head of todo: errorCount++, no delay.
SweepItemThrew(a) ==
  SweepNext([a EXCEPT !.errorCount = @ + 1, !.todo = Tail(@)])

\* What follows the return of syncTaskToCalDAV in its caller.
AfterSyncTask(a, threw) ==
  IF a.op = "sweep"
  THEN (IF threw THEN SweepItemThrew(a) ELSE SweepItemReturned(a))
       @@ [threw |-> FALSE]
  ELSE [a |-> [a EXCEPT !.pc = "idle"], snacks |-> <<>>, threw |-> threw]

\* ------------------------------------------------------ single-item handlers
\* tasks.find(t => t.id === taskId) found the task: if (!task) return
FoundAnyway(task) == TRUE

Found(task) == task.exists

onTaskUpdate(s, taskId) ==
  /\ act[s].pc = "idle"
  /\ LET a == Begin("update", taskId)
         task == tasks[taskId]
         d == IF Found(task) THEN Decision(task) ELSE "NotFound"
     IN /\ act' = [act EXCEPT ![s] =
                     IF d = "Sync" /\ caldavConfig.enabled
                     THEN [a EXCEPT !.pc = "put", !.uid = EventUid(taskId)]
                     ELSE IF d = "Delete"
                     THEN [a EXCEPT !.pc = "del", !.uid = DeleteTarget(taskId)]
                     ELSE Idle]
        /\ lastOp' = IF act'[s].pc = "idle" THEN Finished(a, FALSE) ELSE NoOp
  /\ net' = <<>>
  /\ snack' = <<>>
  /\ posted' = <<>>
  /\ UNCHANGED <<tasks, caldavConfig, taskEventMapping, remote, persisted, used, probe>>

onTaskDelete(s, taskId) ==
  /\ act[s].pc = "idle"
  /\ ~tasks[taskId].exists
  /\ act' = [act EXCEPT ![s] =
               [Begin("delete", taskId) EXCEPT !.pc = "del", !.uid = DeleteTarget(taskId)]]
  /\ lastOp' = NoOp
  /\ net' = <<>>
  /\ snack' = <<>>
  /\ posted' = <<>>
  /\ UNCHANGED <<tasks, caldavConfig, taskEventMapping, remote, persisted, used, probe>>

\* onTaskComplete: if (caldavConfig.deleteCompletedTasks)
CompleteDeletesAlways == TRUE

CompleteDeletes == caldavConfig.deleteCompletedTasks

onTaskComplete(s, taskId) ==
  /\ act[s].pc = "idle"
  /\ tasks[taskId].exists /\ tasks[taskId].isDone
  /\ LET a == Begin("complete", taskId)
     IN /\ act' = [act EXCEPT ![s] =
                     IF CompleteDeletes
                     THEN [a EXCEPT !.pc = "del", !.uid = DeleteTarget(taskId)]
                     ELSE Idle]
        /\ lastOp' = IF act'[s].pc = "idle" THEN Finished(a, FALSE) ELSE NoOp
  /\ net' = <<>>
  /\ snack' = <<>>
  /\ posted' = <<>>
  /\ UNCHANGED <<tasks, caldavConfig, taskEventMapping, remote, persisted, used, probe>>

\* The await of deleteCalDAVEvent resolves in onTaskUpdate or onTaskDelete.
deleteCalDAVEventDone(s) ==
  /\ act[s].pc = "del"
  /\ LET a == act[s]
         t == a.taskId
         sent == DeleteSends
     IN \E reply \in (IF sent THEN Replies("DELETE", a.uid) ELSE {NoReply}) :
          LET returned == ~sent \/ DeleteReturns(reply)
              fault == sent /\ IsFault(reply)
              b == [a EXCEPT !.failed = @ \/ fault]
              drop == returned /\ taskEventMapping[t] # NoUid
              m2 == IF drop THEN MappingRemove(taskEventMapping, t) ELSE taskEventMapping
          IN /\ net' = IF sent THEN <<Request("DELETE", a.uid, reply)>> ELSE <<>>
             /\ remote' = IF sent THEN RemoteAfter("DELETE", a.uid, reply) ELSE remote
             /\ used' = [used EXCEPT !.events = IF fault THEN @ + 1 ELSE @]
             /\ taskEventMapping' = m2
             /\ act' = [act EXCEPT ![s] =
                          IF drop
                          THEN [b EXCEPT !.pc = "delSave", !.blob = Stringify(caldavConfig, m2)]
                          ELSE Idle]
             /\ snack' = IF drop THEN <<>>
                         ELSE IF returned
                         THEN <<Snack("SUCCESS", IF a.op = "update" THEN "unscheduled" ELSE "removed", t, 0)>>
                         ELSE IF a.op = "update" THEN <<>>
                         ELSE <<Snack("ERROR", "errorRemoving", t, 0)>>
             /\ lastOp' = IF drop THEN NoOp ELSE Finished(b, FALSE)
  /\ posted' = <<>>
  /\ UNCHANGED <<tasks, caldavConfig, persisted, probe>>

\* The await of saveData resolves after the mapping entry was deleted.
deleteSaveDataDone(s) ==
  /\ act[s].pc = "delSave"
  /\ LET a == act[s]
     IN \E ok \in StoreReplies :
          LET b == [a EXCEPT !.failed = @ \/ ~ok]
          IN /\ persisted' = IF ok THEN a.blob ELSE persisted
             /\ used' = [used EXCEPT !.events = IF ok THEN @ ELSE @ + 1,
                                   !.storeFailed = @ \/ ~ok]
             /\ snack' = IF ok
                         THEN <<Snack("SUCCESS", IF a.op = "update" THEN "unscheduled" ELSE "removed", a.taskId, 0)>>
                         ELSE IF a.op = "update" THEN <<>>
                         ELSE <<Snack("ERROR", "errorRemoving", a.taskId, 0)>>
             /\ act' = [act EXCEPT ![s] = Idle]
             /\ lastOp' = Finished(b, FALSE)
  /\ net' = <<>>
  /\ posted' = <<>>
  /\ UNCHANGED <<tasks, caldavConfig, taskEventMapping, remote, probe>>

\* The await of putCalDAVEvent resolves in syncTaskToCalDAV.
putCalDAVEventDone(s) ==
  /\ act[s].pc = "put"
  /\ LET a == act[s]
         t == a.taskId
     IN \E reply \in Replies("PUT", a.uid) :
          LET returned == PutReturns(reply)
              fault == IsFault(reply)
              b == [a EXCEPT !.failed = @ \/ fault,
                             !.okPuts = IF returned THEN @ + 1 ELSE @,
                             !.badPuts = IF reply.threw \/ OkStatus(reply.status)
                                         THEN @ ELSE @ + 1]
              m2 == IF returned THEN MappingPut(taskEventMapping, t, a.uid)
                    ELSE taskEventMapping
              k == AfterSyncTask(b, SyncTaskThrows(TRUE))
          IN /\ net' = <<Request("PUT", a.uid, reply) @@ [uidLine |-> UidLine(t)]>>
             /\ remote' = RemoteAfter("PUT", a.uid, reply)
             /\ used' = [used EXCEPT !.events = IF fault THEN @ + 1 ELSE @]
             /\ taskEventMapping' = m2
             /\ act' = [act EXCEPT ![s] =
                          IF returned
                          THEN [b EXCEPT !.pc = "putSave", !.blob = Stringify(caldavConfig, m2)]
                          ELSE IF k.a.pc = "idle" THEN Idle ELSE k.a]
             /\ snack' = IF returned THEN <<>>
                         ELSE <<Snack("ERROR", "errorSync", t, 0)>> \o k.snacks
             /\ lastOp' = IF ~returned /\ k.a.pc = "idle" THEN Finished(k.a, k.threw)
                          ELSE NoOp
  /\ posted' = <<>>
  /\ UNCHANGED <<tasks, caldavConfig, persisted, probe>>

\* The await of saveData resolves in syncTaskToCalDAV.
putSaveDataDone(s) ==
  /\ act[s].pc = "putSave"
  /\ LET a == act[s]
     IN \E ok \in StoreReplies :
          LET b == [a EXCEPT !.failed = @ \/ ~ok]
              k == AfterSyncTask(b, SyncTaskThrows(~ok))
          IN /\ persisted' = IF ok THEN a.blob ELSE persisted
             /\ used' = [used EXCEPT !.events = IF ok THEN @ ELSE @ + 1,
                                   !.storeFailed = @ \/ ~ok]
             /\ snack' = <<IF ok THEN Snack("SUCCESS", "synchronized", a.taskId, 0)
                           ELSE Snack("ERROR", "errorSync", a.taskId, 0)>> \o k.snacks
             /\ act' = [act EXCEPT ![s] = IF k.a.pc = "idle" THEN Idle ELSE k.a]
             /\ lastOp' = IF k.a.pc = "idle" THEN Finished(k.a, k.threw) ELSE NoOp
  /\ net' = <<>>
  /\ posted' = <<>>
  /\ UNCHANGED <<tasks, caldavConfig, taskEventMapping, remote, probe>>

\* ------------------------------------------------------------- full sweep
RECURSIVE Ascending(_)
Ascending(S) ==
  IF S = {} THEN <<>>
  ELSE LET x == CHOOSE y \in S : \A z \in S : y <= z
       IN <<x>> \o Ascending(S \ {x})

HasNoDate(task) == task.plannedAt = 0 /\ task.dueWithTime = 0 /\ task.dueDay = ""

\* taskIds.has(taskId) && !scheduledTaskIds.has(taskId)
IsOrphanIfListed(snap, taskId) == snap[taskId].exists

IsOrphan(snap, taskId) == snap[taskId].exists /\ ~shouldSyncTask(snap[taskId])

\* tasks.filter(shouldSyncTask), then the first item of the sync pass.
SyncPassStart(a) ==
  LET todo == Ascending({t \in TaskIds : a.snap[t].exists /\ shouldSyncTask(a.snap[t])})
      b == [a EXCEPT !.todo = todo, !.total = Len(todo), !.keys = <<>>]
  IN IF Len(todo) = 0
     THEN [a |-> [b EXCEPT !.pc = "idle"], snacks |-> <<Snack("SUCCESS", "nothing", 0, 0)>>]
     ELSE SweepItemStart(b)

\* The for-in loop over taskEventMapping m, from the head of a.keys up to the
\* next await: the delete of the next orphan, or the saveData after the loop.
RECURSIVE OrphanNext(_, _)
OrphanNext(a, m) ==
  IF a.keys = <<>>
  THEN IF a.cleanedUp > 0
       THEN [a |-> [a EXCEPT !.pc = "orphanSave", !.blob = Stringify(caldavConfig, m)],
             snacks |-> <<>>]
       ELSE SyncPassStart(a)
  ELSE LET k == Head(a.keys)
       IN IF m[k] # NoUid /\ IsOrphan(a.snap, k)
          THEN [a |-> [a EXCEPT !.pc = "orphanDel", !.taskId = k, !.uid = m[k]],
                snacks |-> <<>>]
          ELSE OrphanNext([a EXCEPT !.keys = Tail(@)], m)

\* !caldavConfig.calendarUrl || !caldavConfig.username || !caldavConfig.password
IncompleteUrlOrUser(config) == config.calendarUrl = "" \/ config.username = ""

Incomplete(config) ==
  config.calendarUrl = "" \/ config.username = "" \/ config.password = ""

\* The header button's onClick.  orphans0 records the mapped tasks without a
\* date that this sweep, and the sweeps it repeats, started with.
onClick(s) ==
  /\ act[s].pc = "idle"
  /\ LET a == [Begin("sweep", 0) EXCEPT
                 !.keys = Ascending({t \in TaskIds : taskEventMapping[t] # NoUid}),
                 !.orphans0 = (IF Repeats("sweep", 0) = "same" THEN lastOp.orphans0 ELSE {})
                              \cup {t \in TaskIds : /\ taskEventMapping[t] # NoUid
                                                    /\ tasks[t].exists
                                                    /\ HasNoDate(tasks[t])}]
         k == IF ~caldavConfig.enabled
              THEN [a |-> [a EXCEPT !.pc = "idle", !.keys = <<>>, !.orphans0 = {}],
                    snacks |-> <<Snack("ERROR", "disabled", 0, 0)>>]
              ELSE IF Incomplete(caldavConfig)
              THEN [a |-> [a EXCEPT !.pc = "idle", !.keys = <<>>, !.orphans0 = {}],
                    snacks |-> <<Snack("ERROR", "incomplete", 0, 0)>>]
              ELSE OrphanNext(a, taskEventMapping)
     IN /\ act' = [act EXCEPT ![s] = IF k.a.pc = "idle" THEN Idle ELSE k.a]
        /\ snack' = k.snacks
        /\ lastOp' = IF k.a.pc = "idle" THEN Finished(k.a, FALSE) ELSE NoOp
  /\ net' = <<>>
  /\ posted' = <<>>
  /\ UNCHANGED <<tasks, caldavConfig, taskEventMapping, remote, persisted, used, probe>>

\* The await of deleteCalDAVEvent resolves in the orphan pass.
orphanDeleteDone(s) ==
  /\ act[s].pc = "orphanDel"
  /\ LET a == act[s]
         t == a.taskId
         sent == DeleteSends
     IN \E reply \in (IF sent THEN Replies("DELETE", a.uid) ELSE {NoReply}) :
          LET returned == ~sent \/ DeleteReturns(reply)
              fault == sent /\ IsFault(reply)
              m2 == IF returned THEN MappingRemove(taskEventMapping, t) ELSE taskEventMapping
              b == [a EXCEPT !.failed = @ \/ fault,
                             !.cleanedUp = IF returned THEN @ + 1 ELSE @,
                             !.keys = Tail(@)]
              k == OrphanNext(b, m2)
          IN /\ net' = IF sent THEN <<Request("DELETE", a.uid, reply)>> ELSE <<>>
             /\ remote' = IF sent THEN RemoteAfter("DELETE", a.uid, reply) ELSE remote
             /\ used' = [used EXCEPT !.events = IF fault THEN @ + 1 ELSE @]
             /\ taskEventMapping' = m2
             /\ act' = [act EXCEPT ![s] = IF k.a.pc = "idle" THEN Idle ELSE k.a]
             /\ snack' = k.snacks
             /\ lastOp' = IF k.a.pc = "idle" THEN Finished(k.a, FALSE) ELSE NoOp
  /\ posted' = <<>>
  /\ UNCHANGED <<tasks, caldavConfig, persisted, probe>>

\* The await of saveData resolves after the orphan pass.
orphanSaveDataDone(s) ==
  /\ act[s].pc = "orphanSave"
  /\ LET a == act[s]
     IN \E ok \in StoreReplies :
          LET b == [a EXCEPT !.failed = @ \/ ~ok]
              k == IF ok THEN SyncPassStart(b)
                   ELSE [a |-> [b EXCEPT !.pc = "idle"],
                         snacks |-> <<Snack("ERROR", "errorSync", 0, 0)>>]
          IN /\ persisted' = IF ok THEN a.blob ELSE persisted
             /\ used' = [used EXCEPT !.events = IF ok THEN @ ELSE @ + 1,
                                   !.storeFailed = @ \/ ~ok]
             /\ act' = [act EXCEPT ![s] = IF k.a.pc = "idle" THEN Idle ELSE k.a]
             /\ snack' = k.snacks
             /\ lastOp' = IF k.a.pc = "idle" THEN Finished(k.a, FALSE) ELSE NoOp
  /\ net' = <<>>
  /\ posted' = <<>>
  /\ UNCHANGED <<tasks, caldavConfig, taskEventMapping, remote, probe>>

\* The 300 ms timer of the sync pass fires.
delayDone(s) ==
  /\ act[s].pc = "delay"
  /\ LET k == SweepNext(act[s])
     IN /\ act' = [act EXCEPT ![s] = IF k.a.pc = "idle" THEN Idle ELSE k.a]
        /\ snack' = k.snacks
        /\ lastOp' = IF k.a.pc = "idle" THEN Finished(k.a, FALSE) ELSE NoOp
  /\ net' = <<>>
  /\ posted' = <<>>
  /\ UNCHANGED <<tasks, caldavConfig, taskEventMapping, remote, persisted, used, probe>>

\* ---------------------------------------------------------- settings save
handleConfigSave(s, config) ==
  /\ act[s].pc = "idle"
  /\ caldavConfig' = config
  /\ act' = [act EXCEPT ![s] =
               [Begin("save", 0) EXCEPT !.pc = "cfgSave",
                                        !.blob = Stringify(config, taskEventMapping)]]
  /\ lastOp' = NoOp
  /\ net' = <<>>
  /\ snack' = <<>>
  /\ posted' = <<>>
  /\ UNCHANGED <<tasks, taskEventMapping, remote, persisted, used, probe>>

configSaveDataDone(s) ==
  /\ act[s].pc = "cfgSave"
  /\ LET a == act[s]
     IN \E ok \in StoreReplies :
          /\ persisted' = IF ok THEN a.blob ELSE persisted
          /\ used' = [used EXCEPT !.events = IF ok THEN @ ELSE @ + 1,
                                   !.storeFailed = @ \/ ~ok]
          /\ posted' = <<[type |-> "CONFIG_SAVED", success |-> ok]>>
          /\ snack' = IF ok THEN <<Snack("SUCCESS", "saved", 0, 0)>> ELSE <<>>
          /\ act' = [act EXCEPT ![s] = Idle]
          /\ lastOp' = NoOp
  /\ net' = <<>>
  /\ UNCHANGED <<tasks, caldavConfig, taskEventMapping, remote, probe>>

\* ------------------------------------------------- console helpers
\* window.CalDAVSync.syncTask(taskId)
debugSyncTask(s, taskId) ==
  /\ act[s].pc = "idle"
  /\ LET a == Begin("debugSync", taskId)
         task == tasks[taskId]
     IN /\ act' = [act EXCEPT ![s] =
                     IF task.exists /\ caldavConfig.enabled /\ shouldSyncTask(task)
                     THEN [a EXCEPT !.pc = "put", !.uid = EventUid(taskId)]
                     ELSE Idle]
        /\ lastOp' = IF act'[s].pc = "idle" THEN Finished(a, FALSE) ELSE NoOp
  /\ net' = <<>>
  /\ snack' = <<>>
  /\ posted' = <<>>
  /\ UNCHANGED <<tasks, caldavConfig, taskEventMapping, remote, persisted, used, probe>>

\* window.CalDAVSync.deleteEvent(taskId)
debugDeleteEvent(s, taskId) ==
  /\ act[s].pc = "idle"
  /\ LET a == Begin("debugDelete", taskId)
     IN /\ act' = [act EXCEPT ![s] =
                     IF taskEventMapping[taskId] # NoUid
                     THEN [a EXCEPT !.pc = "dbgDel", !.uid = taskEventMapping[taskId]]
                     ELSE Idle]
        /\ lastOp' = IF act'[s].pc = "idle" THEN Finished(a, FALSE) ELSE NoOp
  /\ net' = <<>>
  /\ snack' = <<>>
  /\ posted' = <<>>
  /\ UNCHANGED <<tasks, caldavConfig, taskEventMapping, remote, persisted, used, probe>>

\* The await of deleteCalDAVEvent resolves in deleteEvent: the entry is
\* deleted and saved when it returned, and deleteEvent rejects when it threw.
debugDeleteDone(s) ==
  /\ act[s].pc = "dbgDel"
  /\ LET a == act[s]
         t == a.taskId
         sent == DeleteSends
     IN \E reply \in (IF sent THEN Replies("DELETE", a.uid) ELSE {NoReply}) :
          LET returned == ~sent \/ DeleteReturns(reply)
              fault == sent /\ IsFault(reply)
              b == [a EXCEPT !.failed = @ \/ fault]
              m2 == IF returned THEN MappingRemove(taskEventMapping, t) ELSE taskEventMapping
          IN /\ net' = IF sent THEN <<Request("DELETE", a.uid, reply)>> ELSE <<>>
             /\ remote' = IF sent THEN RemoteAfter("DELETE", a.uid, reply) ELSE remote
             /\ used' = [used EXCEPT !.events = IF fault THEN @ + 1 ELSE @]
             /\ taskEventMapping' = m2
             /\ act' = [act EXCEPT ![s] =
                          IF returned
                          THEN [b EXCEPT !.pc = "dbgSave", !.blob = Stringify(caldavConfig, m2)]
                          ELSE Idle]
             /\ lastOp' = IF returned THEN NoOp ELSE Finished(b, TRUE)
  /\ snack' = <<>>
  /\ posted' = <<>>
  /\ UNCHANGED <<tasks, caldavConfig, persisted, probe>>

\* The await of saveData resolves in deleteEvent.
debugSaveDataDone(s) ==
  /\ act[s].pc = "dbgSave"
  /\ LET a == act[s]
     IN \E ok \in StoreReplies :
          LET b == [a EXCEPT !.failed = @ \/ ~ok]
          IN /\ persisted' = IF ok THEN a.blob ELSE persisted
             /\ used' = [used EXCEPT !.events = IF ok THEN @ ELSE @ + 1,
                                   !.storeFailed = @ \/ ~ok]
             /\ act' = [act EXCEPT ![s] = Idle]
             /\ lastOp' = Finished(b, ~ok)
  /\ net' = <<>>
  /\ snack' = <<>>
  /\ posted' = <<>>
  /\ UNCHANGED <<tasks, caldavConfig, taskEventMapping, remote, probe>>

\* ------------------------------------------------------------ specification
\* The host runs one handler at a time (event-driven handlers run to
\* completion before the next is processed).
Next ==
  \/ \E t \in HandlerIds, shape \in TaskShapes \cup {NoTask} : AllIdle /\ EditTask(t, shape)
  \/ \E s \in Slots, t \in HandlerIds : AllIdle /\ onTaskUpdate(s, t)
  \/ \E s \in Slots, t \in HandlerIds : AllIdle /\ onTaskDelete(s, t)
  \/ \E s \in Slots, t \in HandlerIds : AllIdle /\ onTaskComplete(s, t)
  \/ \E s \in Slots : AllIdle /\ onClick(s)
  \/ \E s \in Slots, c \in Configs : AllIdle /\ handleConfigSave(s, c)
  \/ \E s \in Slots : deleteCalDAVEventDone(s)
  \/ \E s \in Slots : deleteSaveDataDone(s)
  \/ \E s \in Slots : putCalDAVEventDone(s)
  \/ \E s \in Slots : putSaveDataDone(s)
  \/ \E s \in Slots : orphanDeleteDone(s)
  \/ \E s \in Slots : orphanSaveDataDone(s)
  \/ \E s \in Slots : delayDone(s)
  \/ \E s \in Slots : configSaveDataDone(s)

Spec == Init /\ [][Next]_vars

\* ------------------------------------------- handlers and console helpers
\* The handlers of Spec, and syncTask and deleteEvent called from the
\* browser console between them.
NextAdmin ==
  \/ Next
  \/ \E s \in Slots, t \in HandlerIds : AllIdle /\ debugSyncTask(s, t)
  \/ \E s \in Slots, t \in HandlerIds : AllIdle /\ debugDeleteEvent(s, t)
  \/ \E s \in Slots : debugDeleteDone(s)
  \/ \E s \in Slots : debugSaveDataDone(s)

SpecAdmin == Init /\ [][NextAdmin]_vars

\* -------------------------------------------------------- a first session
\* The handlers and the console helpers of SpecAdmin, started with an empty
\* mapping on a calendar that holds no event of the plugin.
InitFresh ==
  /\ Init
  /\ taskEventMapping = EmptyMapping
  /\ remote = {}

SpecFresh == InitFresh /\ [][NextAdmin]_vars

\* ------------------------------------------------- the sweep on its own
\* The header button pressed again and again over an inventory of up to
\* NumTasks tasks that does not change, with the plugin enabled and its
\* credentials complete.
InitSweep ==
  /\ InitFor(TaskIds)
  /\ caldavConfig.enabled
  /\ caldavConfig.username # "" /\ caldavConfig.password # ""
  /\ caldavConfig.calendarUrl # ""

NextSweep ==
  \/ \E s \in Slots : AllIdle /\ onClick(s)
  \/ \E s \in Slots : putCalDAVEventDone(s)
  \/ \E s \in Slots : putSaveDataDone(s)
  \/ \E s \in Slots : orphanDeleteDone(s)
  \/ \E s \in Slots : orphanSaveDataDone(s)
  \/ \E s \in Slots : delayDone(s)

SpecSweep == InitSweep /\ [][NextSweep]_vars

\* ------------------------------------------------- overlapping handlers
\* The hooks and the button's onClick are async functions that nothing
\* serialises: a handler started by an event runs while another one waits
\* for a response or for the timer.  The first activation is a sweep or the
\* update handler of an event that left the dates and the done flag alone;
\* the second is the handler of a change of the inventory, which the host
\* dispatches with the change.

\* The user edits task taskId: TASK_UPDATE runs onTaskUpdate, whose getTasks
\* returns the inventory with the edit.
taskUpdated(s, taskId, shape) ==
  /\ act[s].pc = "idle"
  /\ EventsLeft
  /\ tasks[taskId].exists
  /\ shape # tasks[taskId]
  /\ tasks' = [tasks EXCEPT ![taskId] = shape]
  /\ used' = [used EXCEPT !.events = @ + 1]
  /\ LET a == [Begin("update", taskId) EXCEPT !.snap = tasks']
         d == Decision(shape)
         started == IF d = "Sync" /\ caldavConfig.enabled
                    THEN [a EXCEPT !.pc = "put", !.uid = EventUid(taskId)]
                    ELSE IF d = "Delete"
                    THEN [a EXCEPT !.pc = "del", !.uid = DeleteTarget(taskId)]
                    ELSE Idle
     IN /\ act' = [x \in OverlapSlots |->
                     IF x = s THEN started
                     ELSE IF act[x].pc = "idle" THEN act[x]
                     ELSE [act[x] EXCEPT !.dirty = TRUE]]
        /\ lastOp' = IF started.pc = "idle" THEN Finished(a, FALSE) ELSE NoOp
  /\ net' = <<>>
  /\ snack' = <<>>
  /\ posted' = <<>>
  /\ UNCHANGED <<caldavConfig, taskEventMapping, remote, persisted, probe>>

\* The user deletes task taskId: TASK_DELETE runs onTaskDelete.
taskDeleted(s, taskId) ==
  /\ act[s].pc = "idle"
  /\ EventsLeft
  /\ tasks[taskId].exists
  /\ tasks' = [tasks EXCEPT ![taskId] = NoTask]
  /\ used' = [used EXCEPT !.events = @ + 1]
  /\ act' = [x \in OverlapSlots |->
               IF x = s
               THEN [Begin("delete", taskId) EXCEPT !.pc = "del", !.uid = DeleteTarget(taskId),
                                                    !.snap = tasks']
               ELSE IF act[x].pc = "idle" THEN act[x]
               ELSE [act[x] EXCEPT !.dirty = TRUE]]
  /\ lastOp' = NoOp
  /\ net' = <<>>
  /\ snack' = <<>>
  /\ posted' = <<>>
  /\ UNCHANGED <<caldavConfig, taskEventMapping, remote, persisted, probe>>

\* The plugin is enabled with complete credentials, and an earlier session
\* left it reconciled: the tasks with a mapping entry and an event are tasks
\* of the inventory that classify as Sync.
InitOverlap ==
  /\ InitFor(HandlerIds)
  /\ caldavConfig.enabled
  /\ ~Incomplete(caldavConfig)
  /\ \A t \in TaskIds :
       taskEventMapping[t] # NoUid => (tasks[t].exists /\ shouldSyncTask(tasks[t]))

NextOverlap ==
  \/ \E s \in Slots, t \in HandlerIds : onTaskUpdate(s, t)
  \/ \E s \in Slots : onClick(s)
  \/ \E s \in OverlapSlots \ Slots, t \in HandlerIds, shape \in TaskShapes :
       taskUpdated(s, t, shape)
  \/ \E s \in OverlapSlots \ Slots, t \in HandlerIds : taskDeleted(s, t)
  \/ \E s \in OverlapSlots : deleteCalDAVEventDone(s)
  \/ \E s \in OverlapSlots : deleteSaveDataDone(s)
  \/ \E s \in OverlapSlots : putCalDAVEventDone(s)
  \/ \E s \in OverlapSlots : putSaveDataDone(s)
  \/ \E s \in OverlapSlots : orphanDeleteDone(s)
  \/ \E s \in OverlapSlots : orphanSaveDataDone(s)
  \/ \E s \in OverlapSlots : delayDone(s)

SpecOverlap == InitOverlap /\ [][NextOverlap]_vars

\* ------------------------------------------------ the sync policy on its own
\* The two predicates applied to any task, under any config and any mapping.
InitPolicy ==
  /\ tasks = [t \in TaskIds |-> NoTask]
  /\ caldavConfig \in AllConfigs
  /\ \E synced \in SUBSET TaskIds : taskEventMapping = MappingOf(synced)
  /\ remote = {}
  /\ persisted = NoBlob
  /\ act = [s \in OverlapSlots |-> Idle]
  /\ net = <<>>
  /\ snack = <<>>
  /\ posted = <<>>
  /\ lastOp = NoOp
  /\ used = [events |-> 0, storeFailed |-> FALSE]
  /\ \E task \in AllTasks :
       probe = [applied |-> FALSE, task |-> task, sync |-> FALSE, del |-> FALSE,
                branch |-> "none"]

\* if (shouldSyncTask(task)) ... else if (shouldDeleteTask(task)) ...
ApplyPolicy ==
  /\ ~probe.applied
  /\ probe' = [probe EXCEPT !.applied = TRUE,
                            !.sync = shouldSyncTask(probe.task),
                            !.del = shouldDeleteTask(probe.task),
                            !.branch = Decision(probe.task)]
  /\ UNCHANGED <<tasks, caldavConfig, taskEventMapping, remote, persisted, act, net,
                 snack, posted, lastOp, used>>

NextPolicy == ApplyPolicy

SpecPolicy == InitPolicy /\ [][NextPolicy]_vars

\* ----------------------------------------------- init on any persisted blob
\* What PluginAPI.loadSyncedData() may deliver: nothing, a value that is not
\* a string, a string that is not JSON, or the JSON text of null, of a scalar
\* or of an object; an object has or lacks the members config and mapping,
\* each null, a scalar, an array or an object.
BlobKinds == {"missing", "notString", "notJson", "null", "scalar", "object"}
PartKinds == {"absent", "null", "scalar", "array", "object"}

LoadInputs ==
  {b \in [kind: BlobKinds, configKind: PartKinds, config: Configs,
          mappingKind: PartKinds, mapping: {MappingOf(S) : S \in SUBSET TaskIds}] :
     b.kind # "object" =>
       /\ b.configKind = "absent" /\ b.mappingKind = "absent"
       /\ b.config = DefaultConfig /\ b.mapping = EmptyMapping}

\* An array taken as the config: each field the code reads is undefined.
ArrayAsConfig ==
  [username |-> "", password |-> "", calendarUrl |-> "",
   enabled |-> FALSE, deleteCompletedTasks |-> FALSE]

\* data.config && typeof data.config === 'object'
IsObjectAnyMember(kind) == kind # "absent"

IsObject(kind) == kind \in {"object", "array"}

\* loadData: the config and the mapping after it, from the module's initial
\* values cfg0 and m0 (isArray: the mapping is now an array).
loadData(blob, cfg0, m0) ==
  IF blob.kind \in {"missing", "notString"}
  THEN [config |-> cfg0, mapping |-> m0, isArray |-> FALSE]
  ELSE IF blob.kind \in {"notJson", "null"}
  THEN [config |-> cfg0, mapping |-> m0, isArray |-> FALSE]
  ELSE IF blob.kind = "scalar"
  THEN [config |-> cfg0, mapping |-> m0, isArray |-> FALSE]
  ELSE [config |-> IF IsObject(blob.configKind)
                   THEN (IF blob.configKind = "array" THEN ArrayAsConfig ELSE blob.config)
                   ELSE cfg0,
        mapping |-> IF IsObject(blob.mappingKind) /\ blob.mappingKind = "object"
                    THEN blob.mapping ELSE m0,
        isArray |-> IsObject(blob.mappingKind) /\ blob.mappingKind = "array"]

Hooks == {"TASK_UPDATE", "TASK_DELETE", "TASK_COMPLETE"}

InitLoad ==
  /\ tasks = [t \in TaskIds |-> NoTask]
  /\ caldavConfig = DefaultConfig
  /\ taskEventMapping = EmptyMapping
  /\ remote = {}
  /\ persisted = NoBlob
  /\ act = [s \in OverlapSlots |-> Idle]
  /\ net = <<>>
  /\ snack = <<>>
  /\ posted = <<>>
  /\ lastOp = NoOp
  /\ used = [events |-> 0, storeFailed |-> FALSE]
  /\ \E blob \in LoadInputs :
       probe = [applied |-> FALSE, blob |-> blob, hooks |-> {}, threw |-> FALSE]

\* init(): loadData, the check of the mapping, the hooks and the buttons.
init ==
  /\ ~probe.applied
  /\ LET loaded == loadData(probe.blob, caldavConfig, taskEventMapping)
     IN /\ caldavConfig' = loaded.config
        /\ taskEventMapping' = IF loaded.isArray THEN EmptyMapping ELSE loaded.mapping
        /\ snack' = IF loaded.config.enabled
                    THEN <<Snack("SUCCESS", "enabled", 0, 0)>> ELSE <<>>
  /\ probe' = [probe EXCEPT !.applied = TRUE, !.hooks = Hooks, !.threw = FALSE]
  /\ UNCHANGED <<tasks, remote, persisted, act, net, posted, lastOp, used>>

NextLoad == init

SpecLoad == InitLoad /\ [][NextLoad]_vars

\* ------------------------------------------------------------ event codec
\* Texts are sequences of one-character strings.  Instants are milliseconds
\* since the epoch, taken from January 1970 so that they fit TLC's integers;
\* 0 is an unset (falsy) instant or estimate.
DigitChars == <<"0", "1", "2", "3", "4", "5", "6", "7", "8", "9">>

\* String(n).padStart(2, '0') for n < 100
Pad2(n) == <<DigitChars[(n \div 10) + 1], DigitChars[(n % 10) + 1]>>

\* String(year) for a year of four digits
Year4(y) == Pad2(y \div 100) \o Pad2(y % 100)

\* getUTCFullYear() ... getUTCSeconds() of new Date(ms), for an instant of
\* January 1970.
UTCFields(ms) ==
  LET secs == ms \div 1000
  IN [year |-> 1970, month |-> 1, day |-> (secs \div 86400) + 1,
      hours |-> (secs % 86400) \div 3600, minutes |-> (secs % 3600) \div 60,
      seconds |-> secs % 60]

formatICalDateTimeUTC(ms) ==
  LET f == UTCFields(ms)
  IN Year4(f.year) \o Pad2(f.month) \o Pad2(f.day) \o <<"T">>
     \o Pad2(f.hours) \o Pad2(f.minutes) \o Pad2(f.seconds) \o <<"Z">>

\* text.replace(c, by) with a string pattern: the first occurrence only
RECURSIVE ReplaceFirst(_, _, _)
ReplaceFirst(text, c, by) ==
  IF text = <<>> THEN <<>>
  ELSE IF Head(text) = c THEN by \o Tail(text)
  ELSE <<Head(text)>> \o ReplaceFirst(Tail(text), c, by)

\* text.replace(/c/g, by)
RECURSIVE ReplaceAll(_, _, _)
ReplaceAll(text, c, by) ==
  IF text = <<>> THEN <<>>
  ELSE (IF Head(text) = c THEN by ELSE <<Head(text)>>) \o ReplaceAll(Tail(text), c, by)

escapeICalTextBackslashLast(text) ==
  ReplaceAll(ReplaceAll(ReplaceAll(ReplaceAll(text,
    ";", <<"\\", ";">>), ",", <<"\\", ",">>), "\n", <<"\\", "n">>), "\\", <<"\\", "\\">>)

escapeICalText(text) ==
  IF text = <<>> THEN <<>>
  ELSE ReplaceAll(ReplaceAll(ReplaceAll(ReplaceAll(text,
         "\\", <<"\\", "\\">>), ";", <<"\\", ";">>), ",", <<"\\", ",">>), "\n", <<"\\", "n">>)

\* const duration = task.timeEstimate || 3600000
DefaultDuration == 3600000

DurationIgnoringEstimate(task) == DefaultDuration

Duration(task) == IF task.timeEstimate # 0 THEN task.timeEstimate ELSE DefaultDuration

NoLine == Line("", <<>>)

\* const timestamp = task.plannedAt || task.dueWithTime
timestampDueFirst(task) ==
  IF task.dueWithTime # 0 THEN task.dueWithTime ELSE task.plannedAt

timestamp(task) ==
  IF task.plannedAt # 0 THEN task.plannedAt ELSE task.dueWithTime

\* dtstart and dtend of createEventFromTask; NoLine where the code leaves
\* them undefined.
StartEndLines(task) ==
  IF task.plannedAt # 0 \/ task.dueWithTime # 0
  THEN <<Line("DTSTART", formatICalDateTimeUTC(timestamp(task))),
         Line("DTEND", formatICalDateTimeUTC(timestamp(task) + Duration(task)))>>
  ELSE IF task.dueDay # <<>>
  THEN LET dateOnly == ReplaceAll(task.dueDay, "-", <<>>)
       IN <<Line("DTSTART;VALUE=DATE", dateOnly), Line("DTEND;VALUE=DATE", dateOnly)>>
  ELSE <<NoLine, NoLine>>

\* task.notes ? `DESCRIPTION:${escapeICalText(task.notes)}` : ''
descriptionLineAlways(task) == Line("DESCRIPTION", escapeICalText(task.notes))

descriptionLine(task) ==
  IF task.notes # <<>> THEN Line("DESCRIPTION", escapeICalText(task.notes)) ELSE NoLine

\* The lines of the event, in the order of the array, without the empty
\* ones (filter(line => line)), to be joined by CRLF.
createEventFromTask(task, now) ==
  LET se == StartEndLines(task)
      all == <<Line("BEGIN", <<"VCALENDAR">>),
               Line("VERSION", <<"2.0">>),
               Line("PRODID", <<"-//Super Productivity//CalDAV Sync Plugin//EN">>),
               Line("BEGIN", <<"VEVENT">>),
               UidLine(task.id),
               Line("DTSTAMP", formatICalDateTimeUTC(now)),
               se[1],
               se[2],
               Line("SUMMARY", escapeICalText(task.title)),
               descriptionLine(task),
               Line("STATUS", <<"CONFIRMED">>),
               Line("TRANSP", <<"OPAQUE">>),
               Line("END", <<"VEVENT">>),
               Line("END", <<"VCALENDAR">>)>>
  IN [lines |-> SelectSeq(all, LAMBDA l : l # NoLine), eol |-> "\r\n"]

\* The tasks given to the codec.
PlannedInstants == {0, 1500, 86399000}
DueInstants == {0, 59999}
Estimates == {0, 1000, 1500, 3600000, 5400000}
DueDays == {<<>>, <<"2", "0", "2", "6", "-", "0", "1", "-", "0", "3">>,
            <<"1", "9", "9", "9", "-", "1", "2", "-", "3", "1">>}
Titles == {<<"a">>, <<"a", ";", "b">>}
Notes == {<<>>, <<"\\", "\n", ",">>}
Nows == {0, 90061000}

CodecTasks ==
  [id: TaskIds, plannedAt: PlannedInstants, dueWithTime: DueInstants, dueDay: DueDays,
   timeEstimate: Estimates, title: Titles, notes: Notes]

\* syncTaskToCalDAV encodes a task only if shouldSyncTask holds of it: the
\* task is not done and has one of the three dates.
HasDate(task) == task.plannedAt # 0 \/ task.dueWithTime # 0 \/ task.dueDay # <<>>

InitCodec ==
  /\ tasks = [t \in TaskIds |-> NoTask]
  /\ caldavConfig = DefaultConfig
  /\ taskEventMapping = EmptyMapping
  /\ remote = {}
  /\ persisted = NoBlob
  /\ act = [s \in OverlapSlots |-> Idle]
  /\ net = <<>>
  /\ snack = <<>>
  /\ posted = <<>>
  /\ lastOp = NoOp
  /\ used = [events |-> 0, storeFailed |-> FALSE]
  /\ \E task \in CodecTasks, now \in Nows :
       /\ HasDate(task)
       /\ probe = [applied |-> FALSE, task |-> task, now |-> now, event |-> <<>>]

\* const eventData = createEventFromTask(task)
EncodeTask ==
  /\ ~probe.applied
  /\ probe' = [probe EXCEPT !.applied = TRUE,
                            !.event = <<createEventFromTask(probe.task, probe.now)>>]
  /\ UNCHANGED <<tasks, caldavConfig, taskEventMapping, remote, persisted, act, net,
                 snack, posted, lastOp, used>>

NextCodec == EncodeTask

SpecCodec == InitCodec /\ [][NextCodec]_vars

\* The texts given to escapeICalText alone: every text of at most MaxLen
\* characters over the four escaped characters and two plain ones.
MaxLen == 3
Alphabet == {"\\", ";", ",", "\n", "a", "n"}
Texts == UNION {[1..n -> Alphabet] : n \in 0..MaxLen}

InitEscape ==
  /\ tasks = [t \in TaskIds |-> NoTask]
  /\ caldavConfig = DefaultConfig
  /\ taskEventMapping = EmptyMapping
  /\ remote = {}
  /\ persisted = NoBlob
  /\ act = [s \in OverlapSlots |-> Idle]
  /\ net = <<>>
  /\ snack = <<>>
  /\ posted = <<>>
  /\ lastOp = NoOp
  /\ used = [events |-> 0, storeFailed |-> FALSE]
  /\ \E text \in Texts : probe = [applied |-> FALSE, text |-> text, out |-> <<>>]

\* `SUMMARY:${escapeICalText(task.title)}`
EscapeText ==
  /\ ~probe.applied
  /\ probe' = [probe EXCEPT !.applied = TRUE, !.out = escapeICalText(probe.text)]
  /\ UNCHANGED <<tasks, caldavConfig, taskEventMapping, remote, persisted, act, net,
                 snack, posted, lastOp, used>>

NextEscape == EscapeText

SpecEscape == InitEscape /\ [][NextEscape]_vars

\* ============================================================== properties
\* At least one of plannedAt, dueWithTime, dueDay is set.
AnyDateSet(task) == task.plannedAt # 0 \/ task.dueWithTime # 0 \/ task.dueDay # ""

\* The request of the last step, if it was answered with success for method.
Accepted(req, method) ==
  /\ req.method = method
  /\ ~req.threw
  /\ (OkStatus(req.status) \/ (method = "DELETE" /\ req.status = 404))

\* The members of the mapping object of a persisted blob.
BlobKeys(blob) == IF blob = NoBlob THEN {} ELSE {e[1] : e \in blob[1].mapping}

\* C1: shouldSyncTask(task) is true if and only if at least one of plannedAt,
\* dueWithTime, dueDay is set and isDone is false, whatever the config and
\* the mapping are, and applying it changes no state of the plugin.
C1_SyncIffDatedAndNotDone ==
  [][~probe.applied /\ probe'.applied =>
       /\ probe'.sync = (AnyDateSet(probe.task) /\ ~probe.task.isDone)
       /\ UNCHANGED <<tasks, caldavConfig, taskEventMapping, remote, persisted>>]_vars

C1_Witness ==
  /\ probe.applied /\ probe.sync
  /\ probe.task.dueDay # "" /\ probe.task.plannedAt = 0
  /\ caldavConfig.deleteCompletedTasks /\ ~caldavConfig.enabled
  /\ taskEventMapping # EmptyMapping

\* C2: for every task and config exactly one of Sync, Delete, Ignore applies;
\* shouldDeleteTask is true if and only if the task has none of the three
\* dates or it is done and deleteCompletedTasks is set; the task is ignored
\* exactly when it has a date, is done and deleteCompletedTasks is not set;
\* shouldSyncTask and shouldDeleteTask are never both true.
C2_ExactlyOneDecision ==
  probe.applied =>
    LET task == probe.task
        dated == AnyDateSet(task)
    IN /\ probe.del = (~dated \/ (task.isDone /\ caldavConfig.deleteCompletedTasks))
       /\ ~(probe.sync /\ probe.del)
       /\ probe.branch \in {"Sync", "Delete", "Ignore"}
       /\ (probe.branch = "Sync") = probe.sync
       /\ (probe.branch = "Delete") = probe.del
       /\ (probe.branch = "Ignore")
            = (dated /\ task.isDone /\ ~caldavConfig.deleteCompletedTasks)

C2_Witness ==
  /\ probe.applied /\ probe.branch = "Ignore"
  /\ probe.task.isDone /\ probe.task.dueWithTime # 0

\* C3: while a task classifies as Ignore (it has a date, it is done and
\* deleteCompletedTasks is not set), no step of any handler or sweep sends a
\* DELETE for the task's event or removes the task's mapping entry.
C3_IgnoredTaskLeftAlone ==
  [][\A t \in TaskIds :
       tasks[t].exists /\ Decision(tasks[t]) = "Ignore" =>
         /\ taskEventMapping[t] # NoUid => taskEventMapping'[t] = taskEventMapping[t]
         /\ \A i \in 1..Len(net') :
              ~(net'[i].method = "DELETE" /\ net'[i].uid = EventUid(t))]_vars

\* C4: in the delete path of onTaskUpdate and onTaskDelete, with the plugin
\* enabled, the task's mapping entry is removed if and only if the DELETE was
\* answered with a 2xx or a 404 status; after any other status or a transport
\* failure the entry is still there.
C4_MappingRemovedIffDeleteSucceeded ==
  [][\A s \in Slots :
       /\ act[s].pc = "del"
       /\ caldavConfig.enabled
       /\ taskEventMapping[act[s].taskId] # NoUid
       => /\ Len(net') = 1
          /\ (taskEventMapping'[act[s].taskId] = NoUid) = Accepted(net'[1], "DELETE")]_vars

\* C5: in onTaskUpdate's sync path the entry taskId -> "sp-task-" + taskId is
\* written in the step in which the PUT of that event was answered with a 2xx
\* status, and in no other; when the PUT is answered with another status or
\* the transport fails, the mapping is unchanged, an ERROR snack is shown and
\* the handler returns without throwing.
C5_MappingWrittenOnlyAfterOkPut ==
  [][/\ \A s \in Slots :
          act[s].pc = "put" /\ act[s].op = "update" =>
            LET t == act[s].taskId
            IN /\ Len(net') = 1 /\ net'[1].method = "PUT" /\ net'[1].uid = EventUid(t)
               /\ IF Accepted(net'[1], "PUT")
                  THEN taskEventMapping' = [taskEventMapping EXCEPT ![t] = EventUid(t)]
                  ELSE /\ taskEventMapping' = taskEventMapping
                       /\ \E i \in 1..Len(snack') : snack'[i].type = "ERROR"
                       /\ act'[s].pc = "idle"
                       /\ lastOp'.op = "update" /\ lastOp'.taskId = t
                       /\ ~lastOp'.threw
     /\ \A t \in TaskIds :
          taskEventMapping[t] = NoUid /\ taskEventMapping'[t] # NoUid =>
            /\ taskEventMapping'[t] = EventUid(t)
            /\ Len(net') = 1 /\ net'[1].uid = EventUid(t)
            /\ Accepted(net'[1], "PUT")]_vars

C5_Witness ==
  /\ lastOp.op = "update" /\ lastOp.failed /\ ~lastOp.threw
  /\ Len(net) = 1 /\ net[1].method = "PUT" /\ net[1].status \in RejectStatuses
  /\ taskEventMapping[lastOp.taskId] = NoUid
  /\ Len(snack) = 1 /\ snack[1].type = "ERROR"

\* C6: when onTaskUpdate runs for a task right after an onTaskUpdate for the
\* same task that met no failure, with no task edit, settings save or other
\* handler in between, no step of the second call changes the set of remote
\* resources or the mapping.
C6_SecondUpdateChangesNothing ==
  [][\A s \in Slots :
       act[s].op = "update" /\ act[s].prev = "same" =>
         /\ remote' = remote
         /\ taskEventMapping' = taskEventMapping]_vars

C6_Witness ==
  /\ lastOp.op = "update" /\ lastOp.prev = "same"
  /\ taskEventMapping[lastOp.taskId] = EventUid(lastOp.taskId)
  /\ EventUid(lastOp.taskId) \in remote
  /\ Len(snack) = 1 /\ snack[1].msg = "synchronized"

\* C7: when a sweep that met no failure has returned, the event of every
\* mapped task that was in the inventory without a date when the sweep
\* started is gone from the remote and the task's entry is gone from the
\* mapping and from the persisted blob; no step of a sweep that runs right
\* after such a sweep changes the set of remote resources or the mapping.
C7_OrphanCleanedUpThenNoOp ==
  [][/\ lastOp'.op = "sweep" /\ ~lastOp'.failed =>
          \A t \in lastOp'.orphans0 :
            /\ EventUid(t) \notin remote'
            /\ taskEventMapping'[t] = NoUid
            /\ t \notin BlobKeys(persisted')
     /\ \A s \in Slots :
          act[s].op = "sweep" /\ act[s].prev = "same" =>
            /\ remote' = remote
            /\ taskEventMapping' = taskEventMapping]_vars

C7_Witness ==
  /\ lastOp.op = "sweep" /\ lastOp.prev = "same" /\ ~lastOp.failed
  /\ lastOp.orphans0 # {}
  /\ lastOp.total > 0

\* C8: the summary at the end of a sweep in which every PUT was answered
\* counts the PUTs answered with a 2xx status as successes and the PUTs
\* answered with another status as failures (3 items, the second rejected:
\* 2 successes and 1 failure).
C8_SummaryCountsRejectedAsFailure ==
  \A i \in 1..Len(snack) :
    snack[i].msg = "summary" /\ lastOp.okPuts + lastOp.badPuts = lastOp.total =>
      /\ snack[i].n = lastOp.okPuts
      /\ snack[i].e = lastOp.badPuts

\* The second of three items has just been rejected by the remote.
C8_SecondOfThreeRejected ==
  \E s \in Slots :
    /\ act[s].op = "sweep" /\ act[s].total = 3
    /\ Len(net) = 1 /\ net[1].method = "PUT" /\ net[1].status \in RejectStatuses
    /\ net[1].uid = EventUid(2)
    /\ act[s].okPuts = 1 /\ act[s].badPuts = 1
    /\ act[s].syncedCount = 2 /\ act[s].errorCount = 0

\* C9: when a sweep that runs right after a sweep that met failures, over the
\* same tasks, has returned without meeting a failure itself, the event of
\* every task that classifies as Sync is on the remote and the event of no
\* task that classifies as Delete is.
C9_RerunConverges ==
  lastOp.op = "sweep" /\ lastOp.prev = "retry" /\ ~lastOp.failed =>
    \A t \in TaskIds :
      tasks[t].exists =>
        /\ Decision(tasks[t]) = "Sync" => EventUid(t) \in remote
        /\ Decision(tasks[t]) = "Delete" => EventUid(t) \notin remote

\* C10: as long as no persist call has failed, between two handlers, with
\* the plugin enabled, the remote holds the event "sp-task-" + t if and only
\* if the mapping has an entry for t.
C10_RemoteMatchesMapping ==
  AllIdle /\ ~used.storeFailed /\ caldavConfig.enabled =>
    \A t \in TaskIds : (EventUid(t) \in remote) = (taskEventMapping[t] # NoUid)

\* C11: while caldavConfig.enabled is false no step of any handler, sweep or
\* console helper sends a PUT or a DELETE, and every step in which the sync
\* path or deleteCalDAVEvent is run returns: nothing is thrown and no error
\* is shown, other than the sweep's own notice that the sync is disabled.
C11_DisabledSendsNothing ==
  [][~caldavConfig.enabled =>
       /\ net' = <<>>
       /\ remote' = remote
       /\ \A s \in Slots :
            act[s].pc \in {"idle", "put", "del", "orphanDel", "dbgDel"} =>
              /\ ~lastOp'.threw
              /\ \A i \in 1..Len(snack') :
                   snack'[i].type = "ERROR" => snack'[i].msg = "disabled"]_vars

C11_Witness ==
  /\ ~caldavConfig.enabled
  /\ lastOp.op = "delete" /\ ~lastOp.failed
  /\ EventUid(lastOp.taskId) \in remote
  /\ Len(snack) = 1 /\ snack[1].msg = "removed"

C13_MutationPersistedBeforeNextRequest ==
  [][~used.storeFailed /\ persisted # NoBlob =>
       /\ persisted # Stringify(caldavConfig, taskEventMapping) => net' = <<>>
       /\ AllIdle' /\ ~used'.storeFailed =>
            persisted' = Stringify(caldavConfig', taskEventMapping')]_vars

\* Two orphans: the second DELETE is sent before the first removal is saved.
C13_SecondOrphanBeforeSave ==
  \E s \in Slots :
    /\ act[s].pc = "orphanDel" /\ act[s].cleanedUp = 1
    /\ ~used.storeFailed
    /\ persisted # Stringify(caldavConfig, taskEventMapping)

\* C14: after init with no persisted data deleteCompletedTasks is false, so
\* that a completed task with a date is ignored: onTaskUpdate takes neither
\* the sync nor the delete branch for it.
C14_DeleteCompletedOffByDefault ==
  probe.applied /\ probe.blob.kind = "missing" =>
    /\ ~caldavConfig.deleteCompletedTasks
    /\ \A task \in AllTasks :
         task.isDone /\ AnyDateSet(task) => Decision(task) = "Ignore"

\* C15: onTaskComplete starts the delete of the task's event if and only if
\* deleteCompletedTasks is set: when it is not set the handler returns at
\* once, with no request and no change of state; when it is set and the
\* plugin is enabled, a DELETE for the task's event is sent and, once it is
\* accepted, the event and the mapping entry are gone.
C15_CompletionDeletesIffOptionSet ==
  [][\A s \in Slots :
       /\ AllIdle /\ (act'[s].op = "complete" \/ lastOp'.op = "complete") =>
            IF caldavConfig.deleteCompletedTasks
            THEN /\ act'[s].pc = "del"
                 /\ act'[s].uid \in {taskEventMapping[act'[s].taskId], EventUid(act'[s].taskId)}
            ELSE /\ AllIdle'
                 /\ net' = <<>> /\ snack' = <<>>
                 /\ UNCHANGED <<tasks, caldavConfig, taskEventMapping, remote, persisted>>
       /\ act[s].op = "complete" /\ act[s].pc = "del" /\ caldavConfig.enabled =>
            /\ caldavConfig.deleteCompletedTasks
            /\ Len(net') = 1 /\ net'[1].method = "DELETE"
            /\ net'[1].uid = EventUid(act[s].taskId)
            /\ Accepted(net'[1], "DELETE") =>
                 /\ EventUid(act[s].taskId) \notin remote'
                 /\ taskEventMapping'[act[s].taskId] = NoUid]_vars

C15_Witness ==
  /\ lastOp.op = "complete" /\ ~lastOp.failed
  /\ caldavConfig.enabled /\ caldavConfig.deleteCompletedTasks
  /\ net = <<>>
  /\ Len(snack) = 1 /\ snack[1].msg = "removed"
  /\ EventUid(lastOp.taskId) \notin remote
  /\ lastOp.taskId \notin BlobKeys(persisted)

\* ----------------------------------------------------------- codec claims
DigitValue(c) == CHOOSE d \in 0..9 : DigitChars[d + 1] = c
Num2(tok, i) == 10 * DigitValue(tok[i]) + DigitValue(tok[i + 1])

\* The instant a token YYYYMMDDTHHMMSSZ of January 1970 denotes, in seconds.
TokenSeconds(tok) ==
  ((Num2(tok, 7) - 1) * 24 + Num2(tok, 10)) * 3600 + Num2(tok, 12) * 60 + Num2(tok, 14)

Encoded == probe.event[1].lines
LinesWithKey(key) == SelectSeq(Encoded, LAMBDA l : l.key = key)
IsTimed(task) == task.plannedAt # 0 \/ task.dueWithTime # 0
EncodedMillis == (TokenSeconds(LinesWithKey("DTEND")[1].value)
                  - TokenSeconds(LinesWithKey("DTSTART")[1].value)) * 1000
ClaimedDuration(task) == IF task.timeEstimate # 0 THEN task.timeEstimate ELSE DefaultDuration

\* C16 (as stated): for every timed task the encoded end minus the encoded
\* start equals timeEstimate when it is set, and one hour when it is unset.
C16_EncodedDurationIsEstimate ==
  (probe.applied /\ IsTimed(probe.task)) => EncodedMillis = ClaimedDuration(probe.task)

\* C16 (amended): for every timed task DTSTART and DTEND are the start and
\* start + duration, each cut to whole seconds, with duration = timeEstimate
\* when it is set (non-zero) and one hour otherwise: the encoded difference
\* equals the duration when that is a whole number of seconds, and is less
\* than one second away from it otherwise.
C16_EncodedDurationToTheSecond ==
  (probe.applied /\ IsTimed(probe.task)) =>
    LET d == ClaimedDuration(probe.task)
    IN /\ Len(LinesWithKey("DTSTART")) = 1
       /\ Len(LinesWithKey("DTEND")) = 1
       /\ d % 1000 = 0 => EncodedMillis = d
       /\ EncodedMillis - d < 1000
       /\ d - EncodedMillis < 1000

C16_Witness ==
  /\ probe.applied
  /\ probe.task.plannedAt = 86399000
  /\ probe.task.timeEstimate = 5400000
  /\ EncodedMillis = 5400000

\* C17: a task with only a date-only due date is encoded as an all-day
\* event: DTSTART and DTEND both carry VALUE=DATE and the date with its
\* dashes removed (2026-01-03 gives 20260103), and there is no DTSTART or
\* DTEND with a time.
C17_DateOnlyIsAllDay ==
  (probe.applied /\ ~IsTimed(probe.task) /\ probe.task.dueDay # <<>>) =>
    LET token == SelectSeq(probe.task.dueDay, LAMBDA c : c # "-")
    IN /\ LinesWithKey("DTSTART;VALUE=DATE") = <<Line("DTSTART;VALUE=DATE", token)>>
       /\ LinesWithKey("DTEND;VALUE=DATE") = <<Line("DTEND;VALUE=DATE", token)>>
       /\ LinesWithKey("DTSTART") = <<>>
       /\ LinesWithKey("DTEND") = <<>>
       /\ Len(token) = 8
       /\ \A i \in 1..Len(token) : \E d \in 1..10 : DigitChars[d] = token[i]
       /\ probe.task.dueDay = <<"2", "0", "2", "6", "-", "0", "1", "-", "0", "3">>
            => token = <<"2", "0", "2", "6", "0", "1", "0", "3">>

C17_Witness ==
  /\ probe.applied
  /\ ~IsTimed(probe.task)
  /\ probe.task.dueDay = <<"2", "0", "2", "6", "-", "0", "1", "-", "0", "3">>
  /\ LinesWithKey("DTSTART;VALUE=DATE")[1].value = <<"2", "0", "2", "6", "0", "1", "0", "3">>
  /\ probe.now = 90061000

\* What the claim says of one character.
EscapedChar(c) ==
  IF c = "\\" THEN <<"\\", "\\">>
  ELSE IF c = ";" THEN <<"\\", ";">>
  ELSE IF c = "," THEN <<"\\", ",">>
  ELSE IF c = "\n" THEN <<"\\", "n">>
  ELSE <<c>>

RECURSIVE EscapedEach(_)
EscapedEach(text) ==
  IF text = <<>> THEN <<>> ELSE EscapedChar(Head(text)) \o EscapedEach(Tail(text))

\* Read from the left, out is made of plain characters and of pairs of a
\* backslash and an escaped character: no raw newline, and no semicolon or
\* comma outside such a pair.
RECURSIVE WellEscaped(_)
WellEscaped(out) ==
  IF out = <<>> THEN TRUE
  ELSE IF Head(out) = "\\"
  THEN /\ Len(out) >= 2
       /\ out[2] \in {"\\", ";", ",", "n"}
       /\ WellEscaped(SubSeq(out, 3, Len(out)))
  ELSE /\ Head(out) \notin {";", ",", "\n"}
       /\ WellEscaped(Tail(out))

\* C18: escapeICalText replaces every backslash, semicolon, comma and
\* newline of its input by its escape, character by character, and never
\* escapes again a backslash it introduced: the output has no raw newline
\* and no semicolon or comma without its escaping backslash.
C18_EscapesEachCharacterOnce ==
  probe.applied =>
    /\ probe.out = EscapedEach(probe.text)
    /\ WellEscaped(probe.out)
    /\ \A i \in 1..Len(probe.out) : probe.out[i] # "\n"

C18_Witness ==
  /\ probe.applied
  /\ probe.text = <<"\\", ";", "\n">>
  /\ probe.out = <<"\\", "\\", "\\", ";", "\\", "n">>

\* C19: the resource id of a task is a function of task.id only: every PUT
\* for task t targets "sp-task-" + t, the UID line of the document it pushes
\* carries the same id, and every entry of the mapping, in memory and in the
\* persisted blob, has the value "sp-task-" + key.
C19_UidIsFunctionOfTaskId ==
  [][\A s \in Slots :
       /\ (act[s].pc = "put" /\ net' # <<>>) =>
            /\ net'[1].method = "PUT"
            /\ net'[1].uid = <<"sp-task-", act[s].taskId>>
            /\ net'[1].uidLine = [key |-> "UID", value |-> <<"sp-task-", act[s].taskId>>]
       /\ \A t \in TaskIds :
            /\ taskEventMapping'[t] # NoUid => taskEventMapping'[t] = <<"sp-task-", t>>
            /\ persisted' # NoBlob =>
                 \A e \in persisted'[1].mapping : e[2] = <<"sp-task-", e[1]>>]_vars

\* Task 2, pushed by an earlier session, is pushed again after an edit.
C19_Witness ==
  /\ net # <<>>
  /\ net[1].method = "PUT"
  /\ net[1].uid = <<"sp-task-", 2>>
  /\ net[1].uidLine.value = <<"sp-task-", 2>>
  /\ net[1].status = 204
  /\ used.events = 1
  /\ taskEventMapping[2] = <<"sp-task-", 2>>
  /\ <<"sp-task-", 2>> \in remote

\* C20: a full sweep shows one notification, the summary at its end, and no
\* notification per item: a step of the sync pass of a sweep shows nothing
\* unless it ends the sweep, and then it shows exactly one snack.
C20_SweepShowsOneSnack ==
  [][\A s \in Slots :
       (act[s].op = "sweep" /\ act[s].pc \in {"put", "putSave", "delay"}) =>
         IF act'[s].pc = "idle" THEN Len(snack') = 1 ELSE snack' = <<>>]_vars

\* A sweep over two tasks has stored the entry of its first one and shows
\* "synchronized" for it while the second is still to come.
C20_PerItemSnackInSweep ==
  /\ \E s \in Slots : act[s].op = "sweep" /\ act[s].pc = "delay" /\ act[s].total = 2
  /\ Len(snack) = 1
  /\ snack[1].msg = "synchronized"

\* C21: in the sync pass of a sweep the upserts are issued one at a time, and
\* between two consecutive upserts the delay step takes place, also when the
\* upsert before it failed: the loop reaches the fetch of a PUT only from the
\* delay, or as its first item, and never straight from a PUT or its save.
C21_DelayBetweenUpserts ==
  [][\A s \in Slots :
       /\ Len(net') <= 1
       /\ (act[s].op = "sweep" /\ act[s].pc \in {"put", "putSave"}) =>
            /\ act'[s].pc \in {"putSave", "delay", "idle"}
            /\ act'[s].pc = "idle" => Len(act[s].todo) = 1
       /\ (act'[s].op = "sweep" /\ act'[s].pc = "put" /\ act[s].pc # "put") =>
            \/ act[s].pc = "delay"
            \/ /\ act[s].pc \in {"idle", "orphanDel", "orphanSave"}
               /\ act'[s].syncedCount + act'[s].errorCount = 0]_vars

\* The sweep waits in its delay after a PUT that the server rejected.
C21_Witness ==
  /\ \E s \in Slots : act[s].op = "sweep" /\ act[s].pc = "delay" /\ act[s].todo # <<>>
  /\ net # <<>>
  /\ net[1].method = "PUT"
  /\ ~net[1].threw
  /\ net[1].status = 500

\* C22: an update event for a task id that is absent from the inventory
\* issues no request, leaves the mapping, the calendar and the persisted
\* blob unchanged, shows nothing and returns normally: the handler returns
\* in the step that starts it, and goes on to a request only for a task of
\* the inventory.
C22_UpdateOfAbsentTaskDoesNothing ==
  [][/\ \A s \in Slots :
          (act[s].pc = "idle" /\ act'[s].op = "update") => tasks[act'[s].taskId].exists
     /\ (AllIdle /\ lastOp'.op = "update" /\ ~tasks[lastOp'.taskId].exists) =>
          /\ AllIdle'
          /\ ~lastOp'.threw
          /\ net' = <<>>
          /\ snack' = <<>>
          /\ taskEventMapping' = taskEventMapping
          /\ remote' = remote
          /\ persisted' = persisted]_vars

\* The update of an absent task that still has a mapping entry, with the
\* plugin enabled, has returned.
C22_Witness ==
  /\ AllIdle
  /\ lastOp.op = "update"
  /\ ~tasks[lastOp.taskId].exists
  /\ taskEventMapping[lastOp.taskId] # NoUid
  /\ caldavConfig.enabled

\* C23: every remote-call error, a transport failure or a rejected status,
\* on an upsert or on a delete, in a single-item handler or in a sweep, is
\* caught and shown as a notification of error severity: the step in which
\* a request fails shows an ERROR snack, and the handler does not throw.
C23_RemoteErrorShownAsError ==
  [][(net' # <<>> /\ (net'[1].threw \/ ~Accepted(net'[1], net'[1].method))) =>
       /\ \E i \in 1..Len(snack') : snack'[i].type = "ERROR"
       /\ ~lastOp'.threw]_vars

\* The update handler's delete met a transport failure and the handler has
\* returned without any notification.
C23_UpdateDeleteFailsSilently ==
  /\ AllIdle
  /\ lastOp.op = "update"
  /\ net # <<>>
  /\ net[1].method = "DELETE"
  /\ net[1].threw
  /\ snack = <<>>

\* C24: a sweep started while the plugin is disabled, or while calendarUrl,
\* username or password is empty, shows one error notification and does
\* nothing else: it returns in the step that starts it, without a request
\* and with the mapping, the calendar and the persisted blob unchanged; a
\* sweep goes on to its passes only with a complete, enabled config.
C24_SweepRefusesIncompleteConfig ==
  [][/\ \A s \in Slots :
          (act[s].pc = "idle" /\ act'[s].op = "sweep") =>
            /\ caldavConfig.enabled
            /\ caldavConfig.calendarUrl # ""
            /\ caldavConfig.username # ""
            /\ caldavConfig.password # ""
     /\ (AllIdle /\ lastOp'.op = "sweep"
         /\ (~caldavConfig.enabled \/ caldavConfig.calendarUrl = ""
             \/ caldavConfig.username = "" \/ caldavConfig.password = "")) =>
          /\ AllIdle'
          /\ Len(snack') = 1
          /\ snack'[1].type = "ERROR"
          /\ net' = <<>>
          /\ taskEventMapping' = taskEventMapping
          /\ remote' = remote
          /\ persisted' = persisted]_vars

\* The button was pressed with the password missing while a mapped task
\* without a date waited to be cleaned up.
C24_Witness ==
  /\ AllIdle
  /\ lastOp.op = "sweep"
  /\ snack = <<Snack("ERROR", "incomplete", 0, 0)>>
  /\ caldavConfig.enabled
  /\ caldavConfig.password = ""
  /\ \E t \in TaskIds :
       taskEventMapping[t] # NoUid /\ tasks[t].exists /\ HasNoDate(tasks[t])

\* C25: a settings save replaces the config by the delivered one and writes
\* config and mapping together in one blob: the save leaves the mapping as
\* it is, the blob it stores holds the new config and the current mapping,
\* and no step other than the start of a settings save changes the config.
C25_ConfigSaveWritesConfigAndMapping ==
  [][\A s \in Slots :
       /\ caldavConfig' # caldavConfig =>
            /\ act[s].pc = "idle"
            /\ act'[s].op = "save"
            /\ act'[s].pc = "cfgSave"
            /\ act'[s].blob[1].config = caldavConfig'
       /\ (act'[s].op = "save" \/ act[s].op = "save") =>
            taskEventMapping' = taskEventMapping
       /\ (act[s].pc = "cfgSave" /\ posted'[1].success) =>
            /\ persisted' # NoBlob
            /\ persisted'[1].config = caldavConfig'
            /\ persisted'[1].mapping =
                 {<<t, taskEventMapping'[t]>> : t \in {x \in TaskIds : taskEventMapping'[x] # NoUid}}]_vars

\* A settings save that disables the plugin was stored while the mapping
\* held an entry.
C25_Witness ==
  /\ AllIdle
  /\ posted = <<[type |-> "CONFIG_SAVED", success |-> TRUE]>>
  /\ ~caldavConfig.enabled
  /\ persisted # NoBlob
  /\ persisted[1].config = caldavConfig
  /\ persisted[1].mapping # {}

OverlapIdle == \A s \in OverlapSlots : act[s].pc = "idle"

\* C26: a task-delete event handled while a sweep is in progress leaves no
\* remote event and no mapping entry for the deleted task once the sweep and
\* the delete handler have both finished.
C26_DeleteDuringSweepLeavesNothing ==
  \A t \in TaskIds :
    (OverlapIdle /\ lastOp.op = "sweep" /\ ~tasks[t].exists) =>
      /\ taskEventMapping[t] = NoUid
      /\ <<"sp-task-", t>> \notin remote

\* A sweep over tasks 1 and 2 that ran across the deletion of task 2 has
\* finished without any failed request, and the calendar holds the event of
\* task 2.
C26_SweepRecreatesDeletedTask ==
  /\ OverlapIdle
  /\ lastOp.op = "sweep"
  /\ lastOp.total = 2
  /\ lastOp.okPuts = 2
  /\ ~lastOp.failed
  /\ ~tasks[2].exists
  /\ taskEventMapping[2] = <<"sp-task-", 2>>
  /\ <<"sp-task-", 2>> \in remote

\* C27: when two update handlers of one task overlap, the first started
\* while the task was Sync and the second after its dates were removed,
\* then once both have finished there is no remote event and no mapping
\* entry for the task, which classifies as Delete, in whatever order the
\* two responses arrive.
C27_OverlappingUpdatesEndAtLatestSnapshot ==
  \A t \in TaskIds :
    (/\ OverlapIdle
     /\ lastOp.op = "update"
     /\ lastOp.taskId = t
     /\ tasks[t].exists
     /\ ~shouldSyncTask(tasks[t])
     /\ shouldDeleteTask(tasks[t])) =>
      /\ taskEventMapping[t] = NoUid
      /\ <<"sp-task-", t>> \notin remote

\* The update handler that pushed task 1 has finished after the one that
\* took its event away: the task has no date and the calendar an event.
C27_StalePutLandsLast ==
  /\ OverlapIdle
  /\ lastOp.op = "update"
  /\ lastOp.taskId = 1
  /\ lastOp.okPuts = 1
  /\ ~lastOp.failed
  /\ tasks[1].exists
  /\ HasNoDate(tasks[1])
  /\ taskEventMapping[1] = <<"sp-task-", 1>>
  /\ <<"sp-task-", 1>> \in remote

\* C28: in the sync pass of a sweep every task of the loaded snapshot that
\* classifies as Sync is attempted exactly once, in snapshot order, whatever
\* happens to the other items, and at the end syncedCount + errorCount is
\* the number of those tasks.  The pass starts with all of them in order;
\* each PUT is for the first one left, which is then taken off whatever the
\* outcome; the summary comes only after the last one.
C28_EverySyncTaskAttemptedOnce ==
  [][\A s \in Slots :
       LET a == act[s]
           b == act'[s]
           syncIds == {t \in TaskIds : a.snap[t].exists /\ ~a.snap[t].isDone
                                       /\ AnyDateSet(a.snap[t])}
           loaded == {t \in TaskIds : b.snap[t].exists /\ ~b.snap[t].isDone
                                      /\ AnyDateSet(b.snap[t])}
       IN /\ (b.op = "sweep" /\ a.pc \in {"idle", "orphanDel", "orphanSave"} /\ b.pc = "put") =>
               /\ a.pc = "idle" => b.snap = tasks
               /\ a.pc # "idle" => b.snap = a.snap
               /\ b.todo = Ascending(loaded)
               /\ b.total = Cardinality(loaded)
               /\ b.syncedCount + b.errorCount = 0
          /\ (a.op = "sweep" /\ a.pc = "put") =>
               /\ a.todo # <<>>
               /\ net' # <<>>
               /\ net'[1].method = "PUT"
               /\ net'[1].uid = <<"sp-task-", Head(a.todo)>>
          /\ (a.op = "sweep" /\ a.pc \in {"put", "putSave"} /\ b.pc = "delay") =>
               /\ b.todo = Tail(a.todo)
               /\ b.todo # <<>>
               /\ b.syncedCount + b.errorCount = a.syncedCount + a.errorCount + 1
          /\ (a.op = "sweep" /\ a.pc = "delay") =>
               /\ b.pc = "put"
               /\ b.todo = a.todo
               /\ b.taskId = Head(a.todo)
          /\ (a.op = "sweep" /\ a.pc \in {"put", "putSave"} /\ b.pc = "idle") =>
               /\ Len(a.todo) = 1
               /\ a.total = Cardinality(syncIds)
               /\ snack'[Len(snack')].msg = "summary"
               /\ snack'[Len(snack')].n + snack'[Len(snack')].e = a.total]_vars

\* A sweep over three tasks has pushed the third one after the PUT of the
\* first one was rejected.
C28_Witness ==
  /\ AllIdle
  /\ lastOp.op = "sweep"
  /\ lastOp.total = 3
  /\ lastOp.badPuts = 1
  /\ lastOp.okPuts = 2
  /\ taskEventMapping[1] = NoUid
  /\ taskEventMapping[3] = <<"sp-task-", 3>>
  /\ snack # <<>>
  /\ snack[Len(snack)].msg = "summary"

\* C29: in the orphan pass of a sweep a transport failure of one orphan's
\* DELETE leaves that orphan's mapping entry in place, and the pass goes on
\* with every remaining orphan and the sweep with its sync pass: after the
\* failure comes the DELETE of the next orphan, or the save of what was
\* cleaned up, or the first item of the sync pass, and after that save the
\* sync pass.
C29_OrphanTransportFailureSkipsOnlyThatOrphan ==
  [][\A s \in Slots :
       LET a == act[s]
           b == act'[s]
           rest == {t \in TaskIds : /\ t > a.taskId
                                    /\ taskEventMapping[t] # NoUid
                                    /\ a.snap[t].exists
                                    /\ (a.snap[t].isDone \/ ~AnyDateSet(a.snap[t]))}
           syncIds == {t \in TaskIds : a.snap[t].exists /\ ~a.snap[t].isDone
                                       /\ AnyDateSet(a.snap[t])}
           syncPass == IF syncIds = {}
                       THEN b.pc = "idle" /\ snack' = <<Snack("SUCCESS", "nothing", 0, 0)>>
                       ELSE /\ b.pc = "put"
                            /\ b.todo = Ascending(syncIds)
                            /\ b.taskId = Head(b.todo)
       IN /\ (a.pc = "orphanDel" /\ net' # <<>> /\ net'[1].threw) =>
               /\ taskEventMapping' = taskEventMapping
               /\ taskEventMapping'[a.taskId] = a.uid
               /\ ~lastOp'.threw
               /\ IF rest # {}
                  THEN /\ b.pc = "orphanDel"
                       /\ \A t \in rest : b.taskId <= t
                       /\ b.taskId \in rest
                  ELSE IF a.cleanedUp > 0
                  THEN b.pc = "orphanSave"
                  ELSE syncPass
          /\ (a.pc = "orphanSave" /\ a.failed /\ ~used'.storeFailed) => syncPass]_vars

\* The DELETE of the first of two orphans failed in transport: its entry is
\* still there and the DELETE of the second is under way.
C29_Witness ==
  \E s \in Slots :
    /\ act[s].op = "sweep"
    /\ act[s].pc = "orphanDel"
    /\ act[s].taskId = 2
    /\ net # <<>>
    /\ net[1].method = "DELETE"
    /\ net[1].threw
    /\ net[1].uid = <<"sp-task-", 1>>
    /\ taskEventMapping[1] = <<"sp-task-", 1>>

\* C30: a persistence failure during a sweep never prevents the Sync tasks
\* from being attempted: when the save after the orphan pass fails the sync
\* pass starts all the same, and when the save after an item's PUT fails the
\* sweep goes on to the next item, or to its summary after the last one.
C30_SaveFailureDoesNotStopSweep ==
  [][\A s \in Slots :
       LET a == act[s]
           b == act'[s]
           syncIds == {t \in TaskIds : a.snap[t].exists /\ ~a.snap[t].isDone
                                       /\ AnyDateSet(a.snap[t])}
           saveFailed == used'.events = used.events + 1
       IN /\ (a.op = "sweep" /\ a.pc = "orphanSave" /\ saveFailed) =>
               IF syncIds = {}
               THEN b.pc = "idle"
               ELSE b.pc = "put" /\ b.taskId = Head(Ascending(syncIds))
          /\ (a.op = "sweep" /\ a.pc = "putSave" /\ saveFailed) =>
               IF Len(a.todo) > 1
               THEN b.pc = "delay" /\ b.todo = Tail(a.todo)
               ELSE b.pc = "idle" /\ snack'[Len(snack')].msg = "summary"]_vars

\* The save after the orphan pass failed and the sweep has ended with an
\* error, while task 2 classifies as Sync and has no event.
C30_SweepAbortedBeforeSyncPass ==
  /\ AllIdle
  /\ lastOp.op = "sweep"
  /\ lastOp.total = 0
  /\ used.storeFailed
  /\ snack = <<Snack("ERROR", "errorSync", 0, 0)>>
  /\ tasks[2].exists
  /\ shouldSyncTask(tasks[2])
  /\ <<"sp-task-", 2>> \notin remote

\* C31: when persisting fails during a settings save, the failure is
\* reported to the settings view (CONFIG_SAVED with success false) and the
\* in-memory config is the one held before the save, so that the in-memory
\* config and the persisted config do not disagree after the failed save.
C31_FailedSaveKeepsOldConfig ==
  [][\A s \in Slots :
       (act[s].pc = "cfgSave" /\ persisted' # act[s].blob) =>
         /\ posted' = <<[type |-> "CONFIG_SAVED", success |-> FALSE]>>
         /\ caldavConfig' = IF persisted' = NoBlob THEN DefaultConfig
                            ELSE persisted'[1].config]_vars

\* A settings save that enables the plugin has failed to persist: the view
\* was told so, the blob holds the disabled config and the memory the
\* enabled one.
C31_MemoryAheadOfBlob ==
  /\ AllIdle
  /\ posted = <<[type |-> "CONFIG_SAVED", success |-> FALSE]>>
  /\ used.storeFailed
  /\ caldavConfig.enabled
  /\ persisted # NoBlob
  /\ ~persisted[1].config.enabled

\* C32: starting from an empty remote and an empty mapping, with handlers
\* run one at a time, every mapping entry refers to a resource that exists
\* on the remote whenever no operation is running: no entry is kept for a
\* resource the program has deleted, and none is created for a resource
\* whose upsert failed.
C32_MappingEntriesExistOnRemote ==
  AllIdle => \A t \in TaskIds : taskEventMapping[t] # NoUid => taskEventMapping[t] \in remote

\* With the entry of task 1 in place, the update of task 2 has ended after
\* its PUT was rejected, and task 2 has no entry.
C32_Witness ==
  /\ AllIdle
  /\ lastOp.op = "update"
  /\ lastOp.taskId = 2
  /\ lastOp.failed
  /\ net # <<>>
  /\ net[1].method = "PUT"
  /\ net[1].status = 500
  /\ taskEventMapping[1] = <<"sp-task-", 1>>
  /\ <<"sp-task-", 1>> \in remote
  /\ taskEventMapping[2] = NoUid

\* C33: a success notification saying that a task's event was removed is
\* shown only after a DELETE for that task's resource was sent and answered
\* with 2xx or 404, in this step or, where the mapping entry had to be saved
\* first, in the step before: none while the plugin is disabled and none
\* after a rejected DELETE.
C33_RemovedSnackOnlyAfterAcceptedDelete ==
  [][\A i \in 1..Len(snack') :
       (snack'[i].type = "SUCCESS" /\ snack'[i].msg \in {"removed", "unscheduled"}) =>
         LET req == IF net' # <<>> THEN net' ELSE net
         IN /\ req # <<>>
            /\ Accepted(req[1], "DELETE")
            /\ req[1].uid = <<"sp-task-", snack'[i].n>>]_vars

\* The delete handler of task 1 has shown "Task removed from calendar" with
\* the plugin disabled: no request was sent and the event is still there.
C33_RemovedSnackWhileDisabled ==
  /\ AllIdle
  /\ ~caldavConfig.enabled
  /\ lastOp.op = "delete"
  /\ lastOp.taskId = 1
  /\ snack = <<Snack("SUCCESS", "removed", 1, 0)>>
  /\ net = <<>>
  /\ <<"sp-task-", 1>> \in remote

\* C34: within one sweep the orphan pass and the sync pass act on disjoint
\* sets of tasks: the sweep keeps the snapshot it loaded, every DELETE of its
\* orphan pass is for a task of the snapshot that does not classify as Sync,
\* and every PUT of its sync pass, and so every mapping entry it writes, is
\* for one that does.
C34_OrphanAndSyncPassDisjoint ==
  [][\A s \in Slots :
       LET a == act[s]
           b == act'[s]
           sync(t) == b.snap[t].exists /\ ~b.snap[t].isDone /\ AnyDateSet(b.snap[t])
       IN /\ (a.op = "sweep" /\ b.op = "sweep") => b.snap = a.snap
          /\ (b.op = "sweep" /\ b.pc = "orphanDel") =>
               /\ ~sync(b.taskId)
               /\ b.uid = <<"sp-task-", b.taskId>>
               /\ b.syncedCount + b.errorCount = 0
          /\ (b.op = "sweep" /\ b.pc \in {"put", "putSave"}) =>
               /\ sync(b.taskId)
               /\ b.uid = <<"sp-task-", b.taskId>>
          /\ (a.op = "sweep" /\ a.pc \in {"put", "putSave", "delay"}) =>
               /\ b.pc # "orphanDel"
               /\ \A t \in TaskIds :
                    taskEventMapping'[t] # taskEventMapping[t] =>
                      (t = a.taskId /\ a.snap[t].exists /\ ~a.snap[t].isDone
                       /\ AnyDateSet(a.snap[t]))]_vars

\* A sweep that removed the entry of an orphan in its orphan pass has stored
\* the entry of a Sync task in its sync pass.
C34_Witness ==
  \E s \in Slots :
    /\ act[s].op = "sweep"
    /\ act[s].pc = "putSave"
    /\ act[s].cleanedUp = 1
    /\ act[s].taskId = 3
    /\ taskEventMapping[3] = <<"sp-task-", 3>>
    /\ taskEventMapping[1] = NoUid
    /\ act[s].snap[1].exists
    /\ HasNoDate(act[s].snap[1])

\* C35: a delete started by the update, delete or completion handler targets
\* the id stored in the mapping when the task has an entry and the derived id
\* "sp-task-" + taskId otherwise; for a task without an entry the DELETE is
\* sent to the derived id while the plugin is enabled, the mapping and the
\* persisted blob stay as they were, no save is started, and unless the
\* transport failed the handler ends with its SUCCESS snack.
C35_DeleteTargetsStoredOrDerivedId ==
  [][\A s \in Slots :
       LET a == act[s]
           b == act'[s]
       IN /\ (a.pc = "idle" /\ b.pc = "del") =>
               b.uid = IF taskEventMapping[b.taskId] # NoUid
                       THEN taskEventMapping[b.taskId]
                       ELSE <<"sp-task-", b.taskId>>
          /\ (a.pc = "del" /\ taskEventMapping[a.taskId] = NoUid) =>
               /\ caldavConfig.enabled =>
                    /\ net' # <<>>
                    /\ net'[1].method = "DELETE"
                    /\ net'[1].uid = <<"sp-task-", a.taskId>>
               /\ taskEventMapping' = taskEventMapping
               /\ persisted' = persisted
               /\ b.pc = "idle"
               /\ (net' = <<>> \/ ~net'[1].threw) =>
                    /\ Len(snack') = 1
                    /\ snack'[1].type = "SUCCESS"
                    /\ snack'[1].n = a.taskId]_vars

\* The delete handler has ended with its SUCCESS snack right after an accepted
\* DELETE on the derived id of a task that has no mapping entry; the blob
\* has no entry for it either.
C35_Witness ==
  /\ AllIdle
  /\ caldavConfig.enabled
  /\ net # <<>>
  /\ Accepted(net[1], "DELETE")
  /\ net[1].uid = <<"sp-task-", 2>>
  /\ taskEventMapping[2] = NoUid
  /\ snack = <<Snack("SUCCESS", "removed", 2, 0)>>
  /\ 2 \notin BlobKeys(persisted)
  /\ lastOp.op = "delete"

\* A token of formatICalDateTimeUTC: YYYYMMDD, T, HHMMSS, Z.
IsUTCToken(tok) ==
  /\ Len(tok) = 16
  /\ tok[9] = "T"
  /\ tok[16] = "Z"
  /\ \A i \in (1..8) \cup (10..15) : \E d \in 1..10 : DigitChars[d] = tok[i]

\* C36: a task with plannedAt or dueWithTime is encoded as a timed event, with
\* or without dueDay: one DTSTART and one DTEND carrying UTC timestamps and no
\* VALUE=DATE line, the start being plannedAt when it is set and dueWithTime
\* otherwise (to the second); the VALUE=DATE form appears only when neither
\* timed field is set.
C36_TimedStartPrefersPlannedAt ==
  probe.applied =>
    LET task == probe.task
        start == IF task.plannedAt # 0 THEN task.plannedAt ELSE task.dueWithTime
    IN /\ IsTimed(task) =>
            /\ Len(LinesWithKey("DTSTART")) = 1
            /\ Len(LinesWithKey("DTEND")) = 1
            /\ IsUTCToken(LinesWithKey("DTSTART")[1].value)
            /\ IsUTCToken(LinesWithKey("DTEND")[1].value)
            /\ TokenSeconds(LinesWithKey("DTSTART")[1].value) = start \div 1000
            /\ LinesWithKey("DTSTART;VALUE=DATE") = <<>>
            /\ LinesWithKey("DTEND;VALUE=DATE") = <<>>
       /\ (LinesWithKey("DTSTART;VALUE=DATE") # <<>> \/ LinesWithKey("DTEND;VALUE=DATE") # <<>>) =>
            (task.plannedAt = 0 /\ task.dueWithTime = 0)

\* A task with all three dates set was encoded: timed, starting at plannedAt
\* (23:59:59 of 1 January 1970), not at dueWithTime.
C36_Witness ==
  /\ probe.applied
  /\ probe.task.plannedAt = 86399000
  /\ probe.task.dueWithTime = 59999
  /\ probe.task.dueDay # <<>>
  /\ LinesWithKey("DTSTART")[1].value =
       <<"1", "9", "7", "0", "0", "1", "0", "1", "T", "2", "3", "5", "9", "5", "9", "Z">>

EncodedKeys == [i \in 1..Len(Encoded) |-> Encoded[i].key]

\* C37: the document encoded for a Sync task is BEGIN:VCALENDAR, VERSION,
\* PRODID, then one event block BEGIN:VEVENT, UID, DTSTAMP, DTSTART, DTEND,
\* SUMMARY, DESCRIPTION exactly when the notes are not empty, STATUS, TRANSP,
\* END:VEVENT, then END:VCALENDAR, in this order and joined by CRLF; DTSTART
\* and DTEND are both present, each once, in the timed or in the date form.
C37_EventBlockInFixedOrder ==
  probe.applied =>
    LET task == probe.task
        form == IF IsTimed(task) THEN <<"DTSTART", "DTEND">>
                ELSE <<"DTSTART;VALUE=DATE", "DTEND;VALUE=DATE">>
        head == <<"BEGIN", "VERSION", "PRODID", "BEGIN", "UID", "DTSTAMP">>
        desc == IF task.notes # <<>> THEN <<"DESCRIPTION">> ELSE <<>>
        tail == <<"STATUS", "TRANSP", "END", "END">>
        n == Len(Encoded)
    IN /\ EncodedKeys = head \o form \o <<"SUMMARY">> \o desc \o tail
       /\ probe.event[1].eol = "\r\n"
       /\ Encoded[1].value = <<"VCALENDAR">>
       /\ Encoded[2].value = <<"2.0">>
       /\ Encoded[4].value = <<"VEVENT">>
       /\ Encoded[5].value = <<"sp-task-", task.id>>
       /\ IsUTCToken(Encoded[6].value)
       /\ Encoded[n - 3].value = <<"CONFIRMED">>
       /\ Encoded[n - 2].value = <<"OPAQUE">>
       /\ Encoded[n - 1].value = <<"VEVENT">>
       /\ Encoded[n].value = <<"VCALENDAR">>

\* A task with notes and only a date-only due date was encoded: fourteen
\* lines, DESCRIPTION tenth, after SUMMARY and before STATUS.
C37_Witness ==
  /\ probe.applied
  /\ probe.task.notes # <<>>
  /\ ~IsTimed(probe.task)
  /\ Len(Encoded) = 14
  /\ Encoded[7].key = "DTSTART;VALUE=DATE"
  /\ Encoded[9].key = "SUMMARY"
  /\ Encoded[10].key = "DESCRIPTION"
  /\ Encoded[11].key = "STATUS"

====
